---- MODULE Spec2Model ----
(***************************************************************************)
(* Model of the feature-extraction pipeline of echovoid:                   *)
(* server/services/musicbrainz.ts (class MusicBrainzService).              *)
(*                                                                         *)
(* The file holds two definitions of the class; the model follows the      *)
(* second one (lines 304-567), the one with the retry loop, the timeouts   *)
(* and the empty scaffold.                                                 *)
(*                                                                         *)
(* Numbers are exact rationals <<n, d>> (d > 0, lowest terms).  A square   *)
(* root that is not rational is kept as <<n, d, 2>>, the root of n/d.      *)
(* A JSON object is a record whose domain is the set of keys it carries;   *)
(* the nested optional paths of a feature document are flattened:          *)
(*   bpm      = rhythm.bpm                                                 *)
(*   mfcc     = lowlevel.mfcc.mean                                         *)
(*   chroma   = tonal.chroma_cens                                          *)
(*   centroid = lowlevel.spectral_centroid.mean                            *)
(*   flux     = lowlevel.spectral_flux.var                                 *)
(*   zcr      = lowlevel.zerocrossingrate.mean                             *)
(***************************************************************************)
EXTENDS Integers, Sequences, FiniteSets, TLC

\* inv    the invocations of extractFeaturesFromSongs, by batch id
\* clock  the time that has passed since each invocation was last resumed,
\*        since it sent its outstanding request and between search requests
\* calc   aggregateFeatures on its own: a list of documents and the calls
\*        made on it and on a permutation of it (argument and result)
\* store  the song lists of the session in MemStorage, in creation order, and
\*        the background task of each
VARIABLES inv, clock, calc, store

vars == <<inv, clock, calc, store>>

(***************************************************************************)
(* Bounds of the model.                                                    *)
(***************************************************************************)
\* longest batch of the main specification
MaxSongs == 2
\* how far beyond the cap the longest batch of SpecCap reaches
OverCap == 100
\* longest batch of the specifications with time
MaxTimedSongs == 1
\* longest batch of the specification with two invocations
MaxConcSongs == 1
\* longest list of documents given to aggregateFeatures on its own
MaxDocs == 3
\* the largest amount of time (ms) that passes in one step
TickMs == 5000
\* a short while (ms) that passes while no invocation is suspended
IdleMs == 500
\* how long (ms) the model lets a response body stay incomplete
MaxBodyWait == 10000

(***************************************************************************)
(* Program constants.                                                      *)
(***************************************************************************)
RATE_LIMIT_DELAY == 1000
\* one attempt too many
maxRetries_four == 3 + 1

maxRetries == 3
timeoutMs == 10000
\* songs.slice(0, 500)
MAX_SONGS == 500

(***************************************************************************)
(* JavaScript values.                                                      *)
(***************************************************************************)
Null == [type |-> "null"]

JsString(s) == [type |-> "string", value |-> s]

\* the rejection of a promise, carrying the name of the error
Thrown(name) == [type |-> "throw", name |-> name]

IsThrown(v) == "type" \in DOMAIN v /\ v.type = "throw"

\* if (x) for the values the pipeline tests: null is falsy, a non-empty
\* string and every object (a feature document) are truthy
Truthy(v) ==
  IF "type" \in DOMAIN v
    THEN v.type = "string" /\ v.value # ""
    ELSE TRUE

(***************************************************************************)
(* Exact arithmetic.                                                       *)
(***************************************************************************)
Abs(x) == IF x < 0 THEN -x ELSE x

RECURSIVE GCD(_, _)
GCD(a, b) == IF b = 0 THEN a ELSE GCD(b, a % b)

\* the rational n/d in lowest terms with a positive denominator
Rat(n, d) ==
  LET g == GCD(Abs(n), Abs(d))
      s == IF d < 0 THEN -1 ELSE 1
  IN  <<(s * n) \div g, (s * d) \div g>>

Num(x) == <<x, 1>>

RAdd(p, q) == Rat(p[1] * q[2] + q[1] * p[2], p[2] * q[2])

RSub(p, q) == Rat(p[1] * q[2] - q[1] * p[2], p[2] * q[2])

RMul(p, q) == Rat(p[1] * q[1], p[2] * q[2])

\* p / k for a positive integer k
RDiv(p, k) == Rat(p[1], p[2] * k)

RLess(p, q) == p[1] * q[2] < q[1] * p[2]

IsSquare(n) == \E k \in 0..n : k * k = n

Root(n) == CHOOSE k \in 0..n : k * k = n

\* Math.sqrt of a non-negative rational
Sqrt(p) ==
  IF IsSquare(p[1]) /\ IsSquare(p[2])
    THEN <<Root(p[1]), Root(p[2])>>
    ELSE <<p[1], p[2], 2>>

\* arr.reduce((sum, val) => sum + term(val), 0), terms being the sequence of
\* the term(val), taken left to right
RECURSIVE ReduceSum(_, _)
ReduceSum(terms, acc) ==
  IF terms = <<>> THEN acc
  ELSE ReduceSum(Tail(terms), RAdd(acc, Head(terms)))

(***************************************************************************)
(* The numeric helpers of MusicBrainzService.                              *)
(***************************************************************************)
\* no guard for the empty array: 0 / 0
mean_noGuard(arr) ==
  IF Len(arr) = 0 THEN <<0, 0>>
  ELSE RDiv(ReduceSum([k \in 1..Len(arr) |-> Num(arr[k])], Num(0)), Len(arr))

mean(arr) ==
  IF Len(arr) = 0 THEN Num(0)
  ELSE RDiv(ReduceSum([k \in 1..Len(arr) |-> Num(arr[k])], Num(0)), Len(arr))

variance(arr) ==
  IF Len(arr) = 0 THEN Num(0)
  ELSE LET m == mean(arr)
           sq(v) == RMul(RSub(Num(v), m), RSub(Num(v), m))
       IN  RDiv(ReduceSum([k \in 1..Len(arr) |-> sq(arr[k])], Num(0)), Len(arr))

\* the sample standard deviation: divisor arr.length - 1
std_sample(arr) ==
  IF Len(arr) <= 1 THEN Num(0)
  ELSE LET m == mean(arr)
           sq(v) == RMul(RSub(Num(v), m), RSub(Num(v), m))
       IN  Sqrt(RDiv(ReduceSum([k \in 1..Len(arr) |-> sq(arr[k])], Num(0)),
                     Len(arr) - 1))

std(arr) ==
  IF Len(arr) = 0 THEN Num(0)
  ELSE LET m == mean(arr)
           sq(v) == RMul(RSub(Num(v), m), RSub(Num(v), m))
       IN  Sqrt(RDiv(ReduceSum([k \in 1..Len(arr) |-> sq(arr[k])], Num(0)),
                     Len(arr)))

Min2(a, b) == IF a < b THEN a ELSE b

\* Math.min(...arr) and Math.max(...arr) of a non-empty array
RECURSIVE MathMin(_)
MathMin(arr) ==
  IF Len(arr) = 1 THEN arr[1]
  ELSE LET r == MathMin(Tail(arr)) IN IF arr[1] < r THEN arr[1] ELSE r

RECURSIVE MathMax(_)
MathMax(arr) ==
  IF Len(arr) = 1 THEN arr[1]
  ELSE LET r == MathMax(Tail(arr)) IN IF arr[1] > r THEN arr[1] ELSE r

\* the running total of component i over the vectors, as the nested loops
\* of meanVector build it: a vector adds to result[i] only when i is below
\* both the first vector's length and its own
RECURSIVE ColumnSum(_, _, _, _)
ColumnSum(vectors, i, length, acc) ==
  IF vectors = <<>> THEN acc
  ELSE LET vector == Head(vectors)
       IN  ColumnSum(Tail(vectors), i, length,
                     IF i <= Min2(length, Len(vector))
                       THEN RAdd(acc, Num(vector[i]))
                       ELSE acc)

\* the number of vectors that have an element at index i
RECURSIVE CountPresent(_, _)
CountPresent(vectors, i) ==
  IF vectors = <<>> THEN 0
  ELSE (IF i <= Len(Head(vectors)) THEN 1 ELSE 0) + CountPresent(Tail(vectors), i)

\* each component is divided by the number of vectors that have it
meanVector_divideByPresent(vectors) ==
  IF Len(vectors) = 0 THEN <<>>
  ELSE LET length == Len(vectors[1])
       IN  [i \in 1..length |->
              RDiv(ColumnSum(vectors, i, length, Num(0)),
                   CountPresent(vectors, i))]

\* the result is as long as the last vector
meanVector_lastLength(vectors) ==
  IF Len(vectors) = 0 THEN <<>>
  ELSE LET length == Len(vectors[Len(vectors)])
       IN  [i \in 1..length |->
              RDiv(ColumnSum(vectors, i, length, Num(0)), Len(vectors))]

meanVector(vectors) ==
  IF Len(vectors) = 0 THEN <<>>
  ELSE LET length == Len(vectors[1])
       IN  [i \in 1..length |->
              RDiv(ColumnSum(vectors, i, length, Num(0)), Len(vectors))]

\* (vector[i] || 0): a missing element reads as undefined, which is falsy
ElemOrZero(vector, i) == IF i <= Len(vector) THEN vector[i] ELSE 0

\* a vector without an element at i or j adds nothing to the cell
RECURSIVE CellSum_skipMissing(_, _, _, _, _)
CellSum_skipMissing(vectors, meanVec, i, j, acc) ==
  IF vectors = <<>> THEN acc
  ELSE LET vector == Head(vectors)
           diffI == RSub(Num(ElemOrZero(vector, i)), meanVec[i])
           diffJ == RSub(Num(ElemOrZero(vector, j)), meanVec[j])
       IN  CellSum_skipMissing(Tail(vectors), meanVec, i, j,
             IF i <= Len(vector) /\ j <= Len(vector)
               THEN RAdd(acc, RMul(diffI, diffJ))
               ELSE acc)

RECURSIVE CellSum(_, _, _, _, _)
CellSum(vectors, meanVec, i, j, acc) ==
  IF vectors = <<>> THEN acc
  ELSE LET vector == Head(vectors)
           diffI == RSub(Num(ElemOrZero(vector, i)), meanVec[i])
           diffJ == RSub(Num(ElemOrZero(vector, j)), meanVec[j])
       IN  CellSum(Tail(vectors), meanVec, i, j, RAdd(acc, RMul(diffI, diffJ)))

varianceMatrix(vectors) ==
  IF Len(vectors) = 0 THEN <<>>
  ELSE LET meanVec == meanVector(vectors)
           length == Len(meanVec)
       IN  [i \in 1..length |->
             [j \in 1..length |->
               RDiv(CellSum(vectors, meanVec, i, j, Num(0)), Len(vectors))]]

\* indexed.sort((a, b) => b.val - a.val): a stable sort, descending by val.
\* Insert item behind every element that does not compare after it.
\* an unstable sort: an item goes in front of the elements equal to it
RECURSIVE InsertDesc_unstable(_, _)
InsertDesc_unstable(sorted, item) ==
  IF sorted = <<>> THEN <<item>>
  ELSE IF ~RLess(item.val, Head(sorted).val)
         THEN <<item>> \o sorted
         ELSE <<Head(sorted)>> \o InsertDesc_unstable(Tail(sorted), item)

RECURSIVE InsertDesc(_, _)
InsertDesc(sorted, item) ==
  IF sorted = <<>> THEN <<item>>
  ELSE IF RLess(Head(sorted).val, item.val)
         THEN <<item>> \o sorted
         ELSE <<Head(sorted)>> \o InsertDesc(Tail(sorted), item)

RECURSIVE SortDesc(_, _)
SortDesc(indexed, sorted) ==
  IF indexed = <<>> THEN sorted
  ELSE SortDesc(Tail(indexed), InsertDesc(sorted, Head(indexed)))

\* pitch indices are 0-based, as in the source
getDominantPitches(chromas) ==
  IF Len(chromas) = 0 THEN <<>>
  ELSE LET avgChroma == meanVector(chromas)
           indexed == [k \in 1..Len(avgChroma) |->
                         [val |-> avgChroma[k], idx |-> k - 1]]
           sorted == SortDesc(indexed, <<>>)
       IN  [k \in 1..Min2(3, Len(sorted)) |-> sorted[k].idx]

(***************************************************************************)
(* aggregateFeatures.                                                      *)
(***************************************************************************)
\* the loop ends at the first document without the field
RECURSIVE CollectNumber_stopAtMissing(_, _)
CollectNumber_stopAtMissing(features, key) ==
  IF features = <<>> THEN <<>>
  ELSE LET feature == Head(features)
       IN  IF key \in DOMAIN feature /\ feature[key] # 0
             THEN <<feature[key]>> \o CollectNumber_stopAtMissing(Tail(features), key)
             ELSE <<>>

\* if (feature.<number field>): pushed when present and not 0
RECURSIVE CollectNumber(_, _)
CollectNumber(features, key) ==
  IF features = <<>> THEN <<>>
  ELSE LET feature == Head(features)
           rest == CollectNumber(Tail(features), key)
       IN  IF key \in DOMAIN feature /\ feature[key] # 0
             THEN <<feature[key]>> \o rest
             ELSE rest

\* if (feature.<array field>): pushed when present, an empty array included
RECURSIVE CollectVector(_, _)
CollectVector(features, key) ==
  IF features = <<>> THEN <<>>
  ELSE LET feature == Head(features)
           rest == CollectVector(Tail(features), key)
       IN  IF key \in DOMAIN feature
             THEN <<feature[key]>> \o rest
             ELSE rest

aggregateFeatures(features) ==
  LET tempos == CollectNumber(features, "bpm")
      mfccs == CollectVector(features, "mfcc")
      chromas == CollectVector(features, "chroma")
      centroids == CollectNumber(features, "centroid")
      fluxes == CollectNumber(features, "flux")
      zeroCrossings == CollectNumber(features, "zcr")
  IN  [tempo |->
         [mean |-> mean(tempos),
          std |-> std(tempos),
          range |-> IF Len(tempos) > 0
                      THEN <<Num(MathMin(tempos)), Num(MathMax(tempos))>>
                      ELSE <<Num(0), Num(0)>>],
       mfcc |->
         [mean_vector |-> meanVector(mfccs),
          variance_matrix |-> varianceMatrix(mfccs)],
       chroma |->
         [dominant_pitches |-> getDominantPitches(chromas),
          avg_profile |-> meanVector(chromas)],
       spectral |->
         [avg_centroid |-> mean(centroids),
          flux_variance |-> variance(fluxes)],
       rhythm_complexity |-> mean(zeroCrossings)]

\* the empty scaffold of extractFeaturesFromSongs
emptyFeatures ==
  [tempo |-> [mean |-> Num(0), std |-> Num(0), range |-> <<Num(0), Num(0)>>],
   mfcc |-> [mean_vector |-> <<>>, variance_matrix |-> <<>>],
   chroma |-> [dominant_pitches |-> <<>>, avg_profile |-> <<>>],
   spectral |-> [avg_centroid |-> Num(0), flux_variance |-> Num(0)],
   rhythm_complexity |-> Num(0)]

(***************************************************************************)
(* Inputs and collaborator answers.                                        *)
(***************************************************************************)
\* a string holding a lone surrogate: encodeURIComponent throws URIError
LoneSurrogate == "<U+D800>"

SongRefs ==
  {[artist |-> "artist-a", title |-> "title-a"],
   [artist |-> LoneSurrogate, title |-> "title-b"]}

RecordingIds == {"mbid-1", "mbid-2"}

\* how the fetch of the search request settles: a response with a status,
\* a rejection (transport failure) or the abort raised by the deadline timer
SearchFetchOutcomes ==
  {[status |-> 200], [status |-> 201], [status |-> 429], [status |-> 503],
   [error |-> "TypeError"], [error |-> "AbortError"]}

\* how response.json() of a search response settles: a rejection (body is
\* not JSON) or the parsed value
SearchBodies ==
  {[error |-> "SyntaxError"],
   [data |-> Null],
   [data |-> <<>>],
   [data |-> [recordings |-> <<>>]],
   [data |-> [recordings |-> <<[id |-> "mbid-1"]>>]],
   [data |-> [recordings |-> <<[id |-> "mbid-2"], [id |-> "mbid-1"]>>]]}

FeatureFetchOutcomes ==
  {[status |-> 200], [status |-> 206], [status |-> 404], [status |-> 500],
   [error |-> "TypeError"], [error |-> "AbortError"]}

FeatureDocs ==
  {<<>>,
   [bpm |-> 120],
   [bpm |-> 140, mfcc |-> <<1, 2>>, chroma |-> <<0, 1, 0>>, zcr |-> 0]}

FeatureBodies ==
  {[error |-> "SyntaxError"], [data |-> Null]}
    \cup {[data |-> d] : d \in FeatureDocs}

\* all sequences over S of length at most n
RECURSIVE SeqsUpTo(_, _)
SeqsUpTo(S, n) ==
  IF n = 0 THEN {<<>>}
  ELSE LET shorter == SeqsUpTo(S, n - 1)
       IN  shorter \cup {Append(q, x) : q \in shorter, x \in S}

SmallBatches == SeqsUpTo(SongRefs, MaxSongs)

\* batches around and beyond the cap
LargeBatchSizes == {MAX_SONGS - 1, MAX_SONGS, MAX_SONGS + 1, MAX_SONGS + OverCap}

LargeBatches ==
  {[k \in 1..n |-> [artist |-> "artist-a", title |-> "title-a"]] :
     n \in LargeBatchSizes}

(***************************************************************************)
(* One invocation of extractFeaturesFromSongs: its locals, the locals of   *)
(* the searchRecording / getAudioFeatures call it is awaiting, and the     *)
(* record of what it has done so far.                                      *)
(*   pc              where the invocation is suspended                     *)
(*   i               position (1-based) of the song of the for-of loop     *)
(*   mbid, features  the value the awaited call resolved with              *)
(*   trace           events of the current searchRecording call            *)
(*   ftrace          events of the current getAudioFeatures call           *)
(*   resolverCalls   positions passed to searchRecording, in call order    *)
(*   fetcherCalls    positions passed to getAudioFeatures, in call order   *)
(*   fetched         documents getAudioFeatures resolved with              *)
(*   inFlight        external calls sent and not yet completed             *)
(*   aggregated      arguments of the aggregateFeatures calls              *)
(***************************************************************************)
IdleInvocation ==
  [pc |-> "idle",
   songs |-> <<>>,
   songsToProcess |-> <<>>,
   i |-> 0,
   allFeatures |-> <<>>,
   processedCount |-> 0,
   attempt |-> 0,
   mbid |-> Null,
   features |-> Null,
   result |-> Null,
   trace |-> <<>>,
   ftrace |-> <<>>,
   resolverCalls |-> <<>>,
   fetcherCalls |-> <<>>,
   fetched |-> <<>>,
   inFlight |-> {},
   aggregated |-> <<>>]

Delay(kind, ms, attempt) ==
  [ev |-> "delay", kind |-> kind, ms |-> ms, attempt |-> attempt]

Request(attempt) == [ev |-> "request", attempt |-> attempt]

Settled(attempt, outcome) ==
  [ev |-> "settled", attempt |-> attempt, outcome |-> outcome]

SearchCall(pos) == [service |-> "search", pos |-> pos]

FeatureCall(pos) == [service |-> "features", pos |-> pos]

\* encodeURIComponent(query) throws for a query with a lone surrogate
Encodable(song) == song.artist # LoneSurrogate /\ song.title # LoneSurrogate

\* const waitTime = attempt * 2000
Backoff429(attempt) == attempt * 2000

\* await this.delay(attempt * 1000)
BackoffError(attempt) == attempt * 1000

\* response.ok: the status is in the range 200-299
ResponseOk(status) == status >= 200 /\ status <= 299

\* response.status === 429 && attempt < maxRetries
RetryOn429(status, attempt) == status = 429 /\ attempt < maxRetries

\* the batch is not truncated
Slice_noCap(songs) == songs

\* songs.slice(0, 500)
Slice(songs) == SubSeq(songs, 1, Min2(Len(songs), MAX_SONGS))

(***************************************************************************)
(* searchRecording.                                                        *)
(***************************************************************************)
\* the rate-limit delay is applied before the first attempt only
StartAttempt_delayOnlyFirst(r, attempt) ==
  [r EXCEPT !.attempt = attempt,
            !.pc = "rateLimitDelay",
            !.trace = IF attempt = 1
                        THEN Append(@, Delay("rate_limit", RATE_LIMIT_DELAY, attempt))
                        ELSE @]

\* the head of the try block: await this.delay(RATE_LIMIT_DELAY)
StartAttempt(r, attempt) ==
  [r EXCEPT !.attempt = attempt,
            !.pc = "rateLimitDelay",
            !.trace = Append(@, Delay("rate_limit", RATE_LIMIT_DELAY, attempt))]

\* searchRecording resolves with value; the awaiting loop body resumes later
SearchReturn(r, value) ==
  [r EXCEPT !.pc = "searchReturned", !.mbid = value]

\* for (let attempt = 1; attempt <= maxRetries; attempt++), after a continue
\* or after the catch block; the return null that follows the loop
NextAttempt(r) ==
  IF r.attempt + 1 <= maxRetries
    THEN StartAttempt(r, r.attempt + 1)
    ELSE SearchReturn(r, Null)

\* the final failure is thrown on to the caller
SearchCatch_rethrow(r, name) ==
  IF r.attempt = maxRetries
    THEN SearchReturn(r, Thrown(name))
    ELSE [r EXCEPT !.pc = "backoffError",
                   !.trace = Append(@, Delay("backoff_error",
                                             BackoffError(r.attempt),
                                             r.attempt))]

\* the catch block of searchRecording
SearchCatch(r, name) ==
  IF r.attempt = maxRetries
    THEN SearchReturn(r, Null)
    ELSE [r EXCEPT !.pc = "backoffError",
                   !.trace = Append(@, Delay("backoff_error",
                                             BackoffError(r.attempt),
                                             r.attempt))]

\* the last recording is taken instead of the first
SearchResultOf_last(data) ==
  IF "recordings" \in DOMAIN data /\ Len(data.recordings) > 0
    THEN JsString(data.recordings[Len(data.recordings)].id)
    ELSE Null

\* if (data.recordings && data.recordings.length > 0)
\*   return data.recordings[0].id; return null
SearchResultOf(data) ==
  IF "recordings" \in DOMAIN data /\ Len(data.recordings) > 0
    THEN JsString(data.recordings[1].id)
    ELSE Null

\* searchRecording(artist, title) is called for the song at position pos
searchRecording(r, pos) ==
  StartAttempt([r EXCEPT !.i = pos,
                         !.trace = <<>>,
                         !.resolverCalls = Append(@, pos)], 1)

(***************************************************************************)
(* getAudioFeatures.                                                       *)
(***************************************************************************)
FeaturesReturn(r, value) ==
  [r EXCEPT !.pc = "featuresReturned",
            !.features = value,
            !.fetched = IF Truthy(value) /\ ~IsThrown(value)
                          THEN Append(@, [pos |-> r.i, doc |-> value])
                          ELSE @]

\* a failed request is sent once more
FeatureCatch_retry(r, name) ==
  IF Len(r.ftrace) < 4
    THEN [r EXCEPT !.pc = "awaitFeatureFetch",
                   !.ftrace = Append(@, Request(2)),
                   !.inFlight = @ \cup {FeatureCall(r.i)}]
    ELSE FeaturesReturn(r, Null)

\* the failure is thrown on to the caller
FeatureCatch_rethrow(r, name) == FeaturesReturn(r, Thrown(name))

\* the catch block of getAudioFeatures
FeatureCatch(r, name) == FeaturesReturn(r, Null)

\* getAudioFeatures(mbid) up to its await fetch(url, {signal})
getAudioFeatures(r) ==
  [r EXCEPT !.pc = "awaitFeatureFetch",
            !.ftrace = <<Request(1)>>,
            !.fetcherCalls = Append(@, r.i),
            !.inFlight = @ \cup {FeatureCall(r.i)}]

(***************************************************************************)
(* extractFeaturesFromSongs.                                               *)
(***************************************************************************)
\* no scaffold: a run without documents returns features: null
Finish_nullWhenEmpty(r) ==
  IF Len(r.allFeatures) = 0
    THEN [r EXCEPT !.pc = "returned",
                   !.result = [features |-> Null,
                               processedCount |-> r.processedCount]]
    ELSE [r EXCEPT !.pc = "returned",
                   !.aggregated = Append(@, r.allFeatures),
                   !.result = [features |-> aggregateFeatures(r.allFeatures),
                               processedCount |-> r.processedCount]]

\* the code after the loop
Finish(r) ==
  IF Len(r.allFeatures) = 0
    THEN [r EXCEPT !.pc = "returned",
                   !.result = [features |-> emptyFeatures,
                               processedCount |-> r.processedCount]]
    ELSE [r EXCEPT !.pc = "returned",
                   !.aggregated = Append(@, r.allFeatures),
                   !.result = [features |-> aggregateFeatures(r.allFeatures),
                               processedCount |-> r.processedCount]]

\* an awaited call rejected: the invocation itself rejects
Reject(r, thrown) == [r EXCEPT !.pc = "rejected", !.result = thrown]

\* for (const song of songsToProcess): the next song, or the end of the loop
LoopHead(r) ==
  IF r.i < Len(r.songsToProcess)
    THEN IF r.songsToProcess[r.i + 1] = Null
           \* song.artist of a null element throws outside every try block
           THEN Reject([r EXCEPT !.i = @ + 1], Thrown("TypeError"))
           ELSE searchRecording(r, r.i + 1)
    ELSE Finish(r)

\* processedCount++ moved inside if (features)
AfterSong_countOnSuccess(r, features) ==
  LoopHead([r EXCEPT !.allFeatures = IF Truthy(features)
                                       THEN Append(@, features)
                                       ELSE @,
                     !.processedCount = IF Truthy(features) THEN @ + 1 ELSE @])

\* allFeatures.unshift(features) instead of push
AfterSong_unshift(r, features) ==
  LoopHead([r EXCEPT !.allFeatures = IF Truthy(features)
                                       THEN <<features>> \o @
                                       ELSE @,
                     !.processedCount = @ + 1])

\* the aggregate is recomputed each time a document is pushed
AfterSong_streaming(r, features) ==
  LoopHead([r EXCEPT !.allFeatures = IF Truthy(features)
                                       THEN Append(@, features)
                                       ELSE @,
                     !.aggregated = IF Truthy(features)
                                      THEN Append(@, Append(r.allFeatures, features))
                                      ELSE @,
                     !.processedCount = @ + 1])

\* the rest of the loop body once the song's lookups are over:
\* if (features) allFeatures.push(features); processedCount++
AfterSong(r, features) ==
  LoopHead([r EXCEPT !.allFeatures = IF Truthy(features)
                                       THEN Append(@, features)
                                       ELSE @,
                     !.processedCount = @ + 1])

(***************************************************************************)
(* Actions: one per continuation, from one await to the next.              *)
(***************************************************************************)
\* extractFeaturesFromSongs(songs) is called
extractFeaturesFromSongs(b, songs) ==
  /\ inv[b].pc = "idle"
  /\ inv' = [inv EXCEPT ![b] =
       LoopHead([@ EXCEPT !.songs = songs,
                          !.allFeatures = <<>>,
                          !.processedCount = 0,
                          !.songsToProcess = Slice(songs),
                          !.i = 0])]

\* the rate-limit delay is over: the request is built and sent
RateLimitDelayElapsed(b) ==
  /\ inv[b].pc = "rateLimitDelay"
  /\ LET r == inv[b]
         song == r.songsToProcess[r.i]
     IN  inv' = [inv EXCEPT ![b] =
           IF Encodable(song)
             THEN [r EXCEPT !.pc = "awaitSearchFetch",
                            !.trace = Append(@, Request(r.attempt)),
                            !.inFlight = @ \cup {SearchCall(r.i)}]
             ELSE SearchCatch(
                    [r EXCEPT !.trace =
                       Append(@, Settled(r.attempt, [error |-> "URIError"]))],
                    "URIError")]

\* await fetch(url, ...) of searchRecording settles
SearchFetchSettles(b, outcome) ==
  /\ inv[b].pc = "awaitSearchFetch"
  /\ LET r == [inv[b] EXCEPT !.trace = Append(@, Settled(inv[b].attempt, outcome))]
         done == [r EXCEPT !.inFlight = @ \ {SearchCall(r.i)}]
     IN  inv' = [inv EXCEPT ![b] =
           IF "error" \in DOMAIN outcome
             THEN SearchCatch(done, outcome.error)
             ELSE IF ResponseOk(outcome.status)
               THEN [r EXCEPT !.pc = "awaitSearchJson"]
               ELSE IF RetryOn429(outcome.status, r.attempt)
                 THEN [done EXCEPT
                         !.pc = "backoff429",
                         !.trace = Append(@, Delay("backoff_429",
                                                   Backoff429(r.attempt),
                                                   r.attempt))]
                 ELSE SearchCatch(done, "Error")]

\* an empty result set is thrown into the catch block like a failure
SearchJsonSettles_retryEmpty(b, body) ==
  /\ inv[b].pc = "awaitSearchJson"
  /\ LET r == [inv[b] EXCEPT !.trace = Append(@, Settled(inv[b].attempt, body)),
                             !.inFlight = @ \ {SearchCall(inv[b].i)}]
     IN  inv' = [inv EXCEPT ![b] =
           IF "error" \in DOMAIN body
             THEN SearchCatch(r, body.error)
             ELSE IF body.data = Null
               THEN SearchCatch(r, "TypeError")
               ELSE IF SearchResultOf(body.data) = Null
                 THEN SearchCatch(r, "Error")
                 ELSE SearchReturn(r, SearchResultOf(body.data))]

\* await response.json() of searchRecording settles
SearchJsonSettles(b, body) ==
  /\ inv[b].pc = "awaitSearchJson"
  /\ LET r == [inv[b] EXCEPT !.trace = Append(@, Settled(inv[b].attempt, body)),
                             !.inFlight = @ \ {SearchCall(inv[b].i)}]
     IN  inv' = [inv EXCEPT ![b] =
           IF "error" \in DOMAIN body
             THEN SearchCatch(r, body.error)
             ELSE IF body.data = Null
               THEN SearchCatch(r, "TypeError")
               ELSE SearchReturn(r, SearchResultOf(body.data))]

\* the delay after a 429 is over: continue
Backoff429Elapsed(b) ==
  /\ inv[b].pc = "backoff429"
  /\ inv' = [inv EXCEPT ![b] = NextAttempt(@)]

\* the delay at the end of the catch block is over
BackoffErrorElapsed(b) ==
  /\ inv[b].pc = "backoffError"
  /\ inv' = [inv EXCEPT ![b] = NextAttempt(@)]

\* the fetcher is called whatever searchRecording returned
SearchResumes_fetchUnresolved(b) ==
  /\ inv[b].pc = "searchReturned"
  /\ LET r == inv[b]
     IN  inv' = [inv EXCEPT ![b] =
           IF IsThrown(r.mbid)
             THEN Reject(r, r.mbid)
             ELSE getAudioFeatures(r)]

\* const mbid = await this.searchRecording(...) resumes
SearchResumes(b) ==
  /\ inv[b].pc = "searchReturned"
  /\ LET r == inv[b]
     IN  inv' = [inv EXCEPT ![b] =
           IF IsThrown(r.mbid)
             THEN Reject(r, r.mbid)
             ELSE IF Truthy(r.mbid)
               THEN getAudioFeatures(r)
               ELSE AfterSong(r, Null)]

\* await fetch(url, {signal}) of getAudioFeatures settles
FeatureFetchSettles(b, outcome) ==
  /\ inv[b].pc = "awaitFeatureFetch"
  /\ LET r == [inv[b] EXCEPT !.ftrace = Append(@, Settled(1, outcome))]
         done == [r EXCEPT !.inFlight = @ \ {FeatureCall(r.i)}]
     IN  inv' = [inv EXCEPT ![b] =
           IF "error" \in DOMAIN outcome
             THEN FeatureCatch(done, outcome.error)
             ELSE IF ResponseOk(outcome.status)
               THEN [r EXCEPT !.pc = "awaitFeatureJson"]
               ELSE IF outcome.status = 404
                 THEN FeaturesReturn(done, Null)
                 ELSE FeatureCatch(done, "Error")]

\* await response.json() of getAudioFeatures settles
FeatureJsonSettles(b, body) ==
  /\ inv[b].pc = "awaitFeatureJson"
  /\ LET r == [inv[b] EXCEPT !.ftrace = Append(@, Settled(1, body)),
                             !.inFlight = @ \ {FeatureCall(inv[b].i)}]
     IN  inv' = [inv EXCEPT ![b] =
           IF "error" \in DOMAIN body
             THEN FeatureCatch(r, body.error)
             ELSE FeaturesReturn(r, body.data)]

\* the accumulator is a field of the service: every running invocation sees
\* the document
FeaturesResume_sharedAccumulator(b) ==
  /\ inv[b].pc = "featuresReturned"
  /\ LET r == inv[b]
     IN  inv' = [c \in DOMAIN inv |->
           IF c = b
             THEN IF IsThrown(r.features)
                    THEN Reject(r, r.features)
                    ELSE AfterSong(r, r.features)
             ELSE IF Truthy(r.features) /\ ~IsThrown(r.features)
                       /\ inv[c].pc \notin {"idle", "returned", "rejected"}
               THEN [inv[c] EXCEPT !.allFeatures = Append(@, r.features)]
               ELSE inv[c]]

\* const features = await this.getAudioFeatures(mbid) resumes
FeaturesResume(b) ==
  /\ inv[b].pc = "featuresReturned"
  /\ LET r == inv[b]
     IN  inv' = [inv EXCEPT ![b] =
           IF IsThrown(r.features)
             THEN Reject(r, r.features)
             ELSE AfterSong(r, r.features)]

(***************************************************************************)
(* Specifications.                                                         *)
(***************************************************************************)
\* no time has passed and no search request has been sent (-1: none yet)
ZeroClock(B) ==
  [waited |-> [b \in B |-> 0],
   age |-> [b \in B |-> 0],
   sinceSend |-> -1,
   gap |-> -1]

\* no song list has been created
NoStore == [songLists |-> <<>>, tasks |-> <<>>, posts |-> <<>>]

\* the static fields of MusicBrainzService; it has no other field
ServiceFields ==
  [MB_BASE_URL |-> "https://musicbrainz.org/ws/2",
   AB_BASE_URL |-> "https://acousticbrainz.org/api/v1",
   RATE_LIMIT_DELAY |-> RATE_LIMIT_DELAY]

\* aggregateFeatures has not been called on its own
NoCalc == [features |-> <<>>, calls |-> <<>>, service |-> ServiceFields]

Init ==
  /\ inv = [b \in {1} |-> IdleInvocation]
  /\ clock = ZeroClock({1})
  /\ calc = NoCalc
  /\ store = NoStore

\* a step of a specification without time
Untimed == UNCHANGED <<clock, calc, store>>


Next ==
  \E b \in DOMAIN inv :
    \/ \E songs \in SmallBatches : extractFeaturesFromSongs(b, songs) /\ Untimed
    \/ RateLimitDelayElapsed(b) /\ Untimed
    \/ \E outcome \in SearchFetchOutcomes :
         SearchFetchSettles(b, outcome) /\ Untimed
    \/ \E body \in SearchBodies : SearchJsonSettles(b, body) /\ Untimed
    \/ Backoff429Elapsed(b) /\ Untimed
    \/ BackoffErrorElapsed(b) /\ Untimed
    \/ SearchResumes(b) /\ Untimed
    \/ \E outcome \in FeatureFetchOutcomes :
         FeatureFetchSettles(b, outcome) /\ Untimed
    \/ \E body \in FeatureBodies : FeatureJsonSettles(b, body) /\ Untimed
    \/ FeaturesResume(b) /\ Untimed

Spec == Init /\ [][Next]_vars

(***************************************************************************)
(* SpecLive: Spec with the progress the code itself guarantees.  A timer   *)
(* fires and a fetch settles: with a response, with a failure, or by the   *)
(* abort of its deadline.  A continuation whose promise has settled runs:  *)
(* the await of searchRecording or getAudioFeatures resumes, so the        *)
(* invocation does not stay at searchReturned or featuresReturned (every   *)
(* step from there leaves it).  Nothing makes a response body complete.    *)
(***************************************************************************)
Progress ==
  \E b \in DOMAIN inv :
    /\ \/ RateLimitDelayElapsed(b)
       \/ Backoff429Elapsed(b)
       \/ BackoffErrorElapsed(b)
       \/ \E outcome \in SearchFetchOutcomes : SearchFetchSettles(b, outcome)
       \/ \E outcome \in FeatureFetchOutcomes : FeatureFetchSettles(b, outcome)
    /\ Untimed

Resumes == []<>(inv[1].pc \notin {"searchReturned", "featuresReturned"})

SpecLive == Init /\ [][Next]_vars /\ WF_vars(Progress) /\ Resumes

(***************************************************************************)
(* SpecCap: batches around and beyond the cap.  The collaborators answer   *)
(* the first song in every possible way and every later song with an      *)
(* empty result set.                                                       *)
(***************************************************************************)
CapSearchFetchOutcomes(r) ==
  IF r.i = 1 THEN SearchFetchOutcomes ELSE {[status |-> 200]}

CapSearchBodies(r) ==
  IF r.i = 1 THEN SearchBodies ELSE {[data |-> [recordings |-> <<>>]]}

NextCap ==
  \E b \in DOMAIN inv :
    \/ \E songs \in LargeBatches : extractFeaturesFromSongs(b, songs) /\ Untimed
    \/ RateLimitDelayElapsed(b) /\ Untimed
    \/ \E outcome \in CapSearchFetchOutcomes(inv[b]) :
         SearchFetchSettles(b, outcome) /\ Untimed
    \/ \E body \in CapSearchBodies(inv[b]) : SearchJsonSettles(b, body) /\ Untimed
    \/ Backoff429Elapsed(b) /\ Untimed
    \/ BackoffErrorElapsed(b) /\ Untimed
    \/ SearchResumes(b) /\ Untimed
    \/ \E outcome \in FeatureFetchOutcomes :
         FeatureFetchSettles(b, outcome) /\ Untimed
    \/ \E body \in FeatureBodies : FeatureJsonSettles(b, body) /\ Untimed
    \/ FeaturesResume(b) /\ Untimed

SpecCap == Init /\ [][NextCap]_vars

(***************************************************************************)
(* SpecInvalid: batches that the type of the parameter excludes but a      *)
(* caller can pass: lists with a null element.                             *)
(***************************************************************************)
MalformedBatches == SeqsUpTo(SongRefs \cup {Null}, MaxSongs)

NextInvalid ==
  \E b \in DOMAIN inv :
    \/ \E songs \in MalformedBatches :
         extractFeaturesFromSongs(b, songs) /\ Untimed
    \/ RateLimitDelayElapsed(b) /\ Untimed
    \/ \E outcome \in SearchFetchOutcomes :
         SearchFetchSettles(b, outcome) /\ Untimed
    \/ \E body \in SearchBodies : SearchJsonSettles(b, body) /\ Untimed
    \/ Backoff429Elapsed(b) /\ Untimed
    \/ BackoffErrorElapsed(b) /\ Untimed
    \/ SearchResumes(b) /\ Untimed
    \/ \E outcome \in FeatureFetchOutcomes :
         FeatureFetchSettles(b, outcome) /\ Untimed
    \/ \E body \in FeatureBodies : FeatureJsonSettles(b, body) /\ Untimed
    \/ FeaturesResume(b) /\ Untimed

SpecInvalid == Init /\ [][NextInvalid]_vars

(***************************************************************************)
(* SpecAgg: aggregateFeatures on its own, called on a list of documents    *)
(* and then on a permutation of the list.                                  *)
(***************************************************************************)
\* the vector of n zeros with a one at 0-based index idx
OneHot(n, idx) == [k \in 1..n |-> IF k = idx + 1 THEN 1 ELSE 0]

AggDocs ==
  {<<>>,
   [bpm |-> 120],
   [bpm |-> 140],
   [bpm |-> 0, zcr |-> 3],
   [mfcc |-> <<1, 2>>, chroma |-> <<0, 1, 0>>],
   [bpm |-> 100, mfcc |-> <<3, 5>>, chroma |-> <<1, 0, 0>>,
    centroid |-> 2, flux |-> 4],
   [mfcc |-> <<3>>, chroma |-> <<2, 1>>, flux |-> 6, zcr |-> 1],
   [chroma |-> OneHot(12, 0)],
   [chroma |-> OneHot(12, 1)]}

AggLists == SeqsUpTo(AggDocs, MaxDocs)

InitAgg ==
  /\ inv = [b \in {1} |-> IdleInvocation]
  /\ clock = ZeroClock({1})
  /\ \E features \in AggLists :
       calc = [features |-> features, calls |-> <<>>, service |-> ServiceFields]
  /\ store = NoStore

\* the objects a call can write to: an array made inside the call, the
\* list it is given, a field of document k of the list, a field of the class
Local(name) == [obj |-> "local", name |-> name]

ListOf == [obj |-> "argument"]

FieldOf(k, key) == [obj |-> "document", doc |-> k, key |-> key]

This(field) == [obj |-> "this", field |-> field]

\* mfccs.push(feature.mfcc), chromas.push(feature.chroma): the array holds
\* the vectors of the documents themselves, not copies
RECURSIVE CollectRefs(_, _, _)
CollectRefs(features, key, k) ==
  IF k > Len(features) THEN <<>>
  ELSE (IF key \in DOMAIN features[k] THEN <<FieldOf(k, key)>> ELSE <<>>)
         \o CollectRefs(features, key, k + 1)

\* result[i] += vector[i] for every vector and every i below both lengths
RECURSIVE Accumulated(_, _, _)
Accumulated(result, vectors, length) ==
  IF vectors = <<>> THEN result
  ELSE LET vector == Head(vectors)
       IN  Accumulated([i \in DOMAIN result |->
                          IF i <= Min2(length, Len(vector))
                            THEN result[i] + vector[i]
                            ELSE result[i]],
                       Tail(vectors), length)

\* const result = vectors[0]: the sums are built in the first vector itself
meanVectorResult_aliased(vectors, refs) ==
  [target |-> refs[1], initial |-> vectors[1]]

\* const result = new Array(length).fill(0)
meanVectorResult(vectors, refs) ==
  [target |-> Local("result"), initial |-> [i \in 1..Len(vectors[1]) |-> 0]]

\* what meanVector writes: the array its sums are built in
meanVectorWrites(vectors, refs) ==
  IF Len(vectors) = 0 THEN <<>>
  ELSE LET result == meanVectorResult(vectors, refs)
       IN  <<[target |-> result.target,
              content |-> Accumulated(result.initial, vectors, Len(vectors[1]))]>>

\* what varianceMatrix writes: what its meanVector call writes, and matrix
varianceMatrixWrites(vectors, refs) ==
  IF Len(vectors) = 0 THEN <<>>
  ELSE LET meanVec == meanVector(vectors)
           length == Len(meanVec)
       IN  meanVectorWrites(vectors, refs)
             \o <<[target |-> Local("matrix"),
                   content |-> [i \in 1..length |->
                                  [j \in 1..length |->
                                     CellSum(vectors, meanVec, i, j, Num(0))]]]>>

\* what getDominantPitches writes: what its meanVector call writes, and
\* indexed, the array avgChroma.map made, which is sorted in place
getDominantPitchesWrites(chromas, refs) ==
  IF Len(chromas) = 0 THEN <<>>
  ELSE LET avgChroma == meanVector(chromas)
           indexed == [k \in 1..Len(avgChroma) |->
                         [val |-> avgChroma[k], idx |-> k - 1]]
       IN  meanVectorWrites(chromas, refs)
             \o <<[target |-> Local("indexed"),
                   content |-> SortDesc(indexed, <<>>)]>>

\* every object aggregateFeatures and its helpers assign to, in the order
\* of the code, with the content the object is left with
aggregateFeaturesWrites(features) ==
  LET mfccs == CollectVector(features, "mfcc")
      chromas == CollectVector(features, "chroma")
      mfccRefs == CollectRefs(features, "mfcc", 1)
      chromaRefs == CollectRefs(features, "chroma", 1)
  IN  <<[target |-> Local("tempos"), content |-> CollectNumber(features, "bpm")],
        [target |-> Local("mfccs"), content |-> mfccRefs],
        [target |-> Local("chromas"), content |-> chromaRefs],
        [target |-> Local("centroids"), content |-> CollectNumber(features, "centroid")],
        [target |-> Local("fluxes"), content |-> CollectNumber(features, "flux")],
        [target |-> Local("zeroCrossings"), content |-> CollectNumber(features, "zcr")]>>
        \o meanVectorWrites(mfccs, mfccRefs)
        \o varianceMatrixWrites(mfccs, mfccRefs)
        \o getDominantPitchesWrites(chromas, chromaRefs)
        \o meanVectorWrites(chromas, chromaRefs)

\* the content of object ref after the writes: that of the last write to it
LastWrite(writes, ref, old) ==
  LET hits == {w \in DOMAIN writes : writes[w].target = ref}
  IN  IF hits = {} THEN old
      ELSE writes[CHOOSE w \in hits : \A v \in hits : v <= w].content

\* the list and its documents after the writes
Written(features, writes) ==
  LET list == LastWrite(writes, ListOf, features)
  IN  [k \in DOMAIN list |->
        [key \in DOMAIN list[k] |->
           LastWrite(writes, FieldOf(k, key), list[k][key])]]

\* the list and its documents after the call
ArgumentAfter(features) ==
  CHOOSE after \in {Written(features, writes) :
                      writes \in {aggregateFeaturesWrites(features)}} : TRUE

\* the fields of the class after the call
ServiceAfter(service, features) ==
  CHOOSE after \in {[field \in DOMAIN service |->
                       LastWrite(writes, This(field), service[field])] :
                      writes \in {aggregateFeaturesWrites(features)}} : TRUE

Call(features) ==
  [input |-> features,
   output |-> aggregateFeatures(features),
   after |-> ArgumentAfter(features)]

Permute(features, p) == [k \in DOMAIN features |-> features[p[k]]]

\* aggregateFeatures(features): the list is left as the call leaves it
CallAggregate ==
  /\ Len(calc.calls) = 0
  /\ \E call \in {Call(calc.features)} :
       calc' = [features |-> call.after,
                calls |-> <<call>>,
                service |-> ServiceAfter(calc.service, calc.features)]
  /\ UNCHANGED <<inv, clock, store>>

\* aggregateFeatures(a permutation of features): the permuted list holds the
\* same documents
CallAggregatePermuted ==
  /\ Len(calc.calls) = 1
  /\ \E p \in Permutations(DOMAIN calc.features) :
       \E call \in {Call(Permute(calc.features, p))} :
         calc' = [features |-> [k \in DOMAIN calc.features |->
                                  call.after[CHOOSE j \in DOMAIN p : p[j] = k]],
                  calls |-> Append(calc.calls, call),
                  service |-> ServiceAfter(calc.service, call.input)]
  /\ UNCHANGED <<inv, clock, store>>

NextAgg == CallAggregate \/ CallAggregatePermuted

SpecAgg == InitAgg /\ [][NextAgg]_vars

(***************************************************************************)
(* Time.  A continuation takes no time; time passes while invocations are  *)
(* suspended.  A timer fires when its delay has passed: the step of time   *)
(* never jumps over a pending timer, and a continuation whose promise has  *)
(* settled runs before any time passes.                                    *)
(***************************************************************************)
TimerPcs == {"rateLimitDelay", "backoff429", "backoffError"}

FetchPcs == {"awaitSearchFetch", "awaitFeatureFetch"}

JsonPcs == {"awaitSearchJson", "awaitFeatureJson"}

ResumePcs == {"searchReturned", "featuresReturned"}

\* what the invocation is waiting for: the delay of its setTimeout, or the
\* deadline after which controller.abort() ends its fetch
TimerMs(r) ==
  CASE r.pc = "rateLimitDelay" -> RATE_LIMIT_DELAY
    [] r.pc = "backoff429" -> Backoff429(r.attempt)
    [] r.pc = "backoffError" -> BackoffError(r.attempt)
    [] r.pc \in FetchPcs -> timeoutMs

\* the delay of invocation b is over
TimerDue(b) ==
  /\ inv[b].pc \in TimerPcs
  /\ clock.waited[b] >= TimerMs(inv[b])

\* fetch settles before the deadline with a response or a transport failure,
\* and at the deadline with the abort; clearTimeout(timeoutId) follows a
\* response, so nothing bounds the wait for the body
FetchOutcomesAt(b, outcomes) ==
  IF clock.waited[b] < timeoutMs
    THEN outcomes \ {[error |-> "AbortError"]}
    ELSE {[error |-> "AbortError"]}

\* search requests further apart than this are not told apart
SendCap == 2 * RATE_LIMIT_DELAY

\* the clock after invocation b ran a continuation
Resumed(b) ==
  LET sent == inv'[b].inFlight \ inv[b].inFlight
      searchSent == \E c \in sent : c.service = "search"
  IN  /\ clock' = [waited |-> [clock.waited EXCEPT ![b] = 0],
                   age |-> IF sent # {}
                             THEN [clock.age EXCEPT ![b] = 0]
                             ELSE clock.age,
                   sinceSend |-> IF searchSent THEN 0 ELSE clock.sinceSend,
                   gap |-> IF searchSent THEN clock.sinceSend ELSE clock.gap]
      /\ UNCHANGED <<calc, store>>

\* the time until the next timer of a suspended invocation fires
RECURSIVE MinOver(_, _)
MinOver(S, best) ==
  IF S = {} THEN best
  ELSE LET x == CHOOSE x \in S : TRUE
       IN  MinOver(S \ {x}, Min2(x, best))

Suspended == {b \in DOMAIN inv : inv[b].pc \in TimerPcs \cup FetchPcs \cup JsonPcs}

\* the amounts of time that can pass in one step: up to the next timer
\* of a suspended invocation, or, while no invocation is suspended, a short
\* or a long while
TickSteps ==
  IF Suspended = {}
    THEN {IdleMs, TickMs}
    ELSE {MinOver({TimerMs(inv[b]) - clock.waited[b] :
                     b \in {c \in Suspended : inv[c].pc \notin JsonPcs}},
                  TickMs)}

\* time passes, whether or not an invocation is running: no timer is
\* overrun, and a response body that is still pending holds nobody else
\* back; time is followed no further only once every suspended invocation
\* has waited MaxBodyWait for a body
Tick ==
  /\ \A b \in DOMAIN inv : inv[b].pc \notin ResumePcs
  /\ \A b \in Suspended :
       inv[b].pc \notin JsonPcs => clock.waited[b] < TimerMs(inv[b])
  /\ \/ Suspended = {}
     \/ \E b \in Suspended :
          inv[b].pc \in JsonPcs => clock.waited[b] < MaxBodyWait
  /\ \E d \in TickSteps :
       clock' =
         [waited |-> [b \in DOMAIN inv |->
                        IF b \in Suspended
                          THEN clock.waited[b] + d ELSE clock.waited[b]],
          age |-> [b \in DOMAIN inv |->
                     IF inv[b].inFlight # {}
                       THEN clock.age[b] + d ELSE clock.age[b]],
          sinceSend |-> IF clock.sinceSend < 0 THEN clock.sinceSend
                        ELSE Min2(clock.sinceSend + d, SendCap),
          gap |-> clock.gap]
  /\ UNCHANGED <<inv, calc, store>>

(***************************************************************************)
(* SpecTimed: one invocation with time.                                    *)
(***************************************************************************)
TimedBatches == SeqsUpTo(SongRefs, MaxTimedSongs)

NextTimed ==
  \/ \E b \in DOMAIN inv :
       \/ \E songs \in TimedBatches :
            extractFeaturesFromSongs(b, songs) /\ Resumed(b)
       \/ TimerDue(b) /\ RateLimitDelayElapsed(b) /\ Resumed(b)
       \/ \E outcome \in FetchOutcomesAt(b, SearchFetchOutcomes) :
            SearchFetchSettles(b, outcome) /\ Resumed(b)
       \/ \E body \in SearchBodies : SearchJsonSettles(b, body) /\ Resumed(b)
       \/ TimerDue(b) /\ Backoff429Elapsed(b) /\ Resumed(b)
       \/ TimerDue(b) /\ BackoffErrorElapsed(b) /\ Resumed(b)
       \/ SearchResumes(b) /\ Resumed(b)
       \/ \E outcome \in FetchOutcomesAt(b, FeatureFetchOutcomes) :
            FeatureFetchSettles(b, outcome) /\ Resumed(b)
       \/ \E body \in FeatureBodies : FeatureJsonSettles(b, body) /\ Resumed(b)
       \/ FeaturesResume(b) /\ Resumed(b)
  \/ Tick

SpecTimed == Init /\ [][NextTimed]_vars

(***************************************************************************)
(* SpecConc: two invocations on the same service, as two POST              *)
(* /api/process-list requests start them, with time.  The collaborators    *)
(* answer at once or after one step of time.  They answer the first song   *)
(* of invocation 1 with a response, a 429 or a 503, with or without a      *)
(* recording, with a document or a 404; every other song gets a recording  *)
(* and a document.  The documents of the two invocations differ.           *)
(***************************************************************************)
ConcBatches ==
  SeqsUpTo({[artist |-> "artist-a", title |-> "title-a"]}, MaxConcSongs)

AnsweredFreely(b) == b = 1 /\ inv[b].i = 1

ConcSearchFetchOutcomes(b) ==
  IF clock.waited[b] > TickMs THEN {}
  ELSE IF AnsweredFreely(b)
    THEN {[status |-> 200], [status |-> 429], [status |-> 503]}
    ELSE {[status |-> 200]}

ConcSearchBodies(b) ==
  IF AnsweredFreely(b)
    THEN {[data |-> [recordings |-> <<>>]],
          [data |-> [recordings |-> <<[id |-> "mbid-1"]>>]]}
    ELSE {[data |-> [recordings |-> <<[id |-> "mbid-1"]>>]]}

ConcFeatureFetchOutcomes(b) ==
  IF clock.waited[b] > TickMs THEN {}
  ELSE IF AnsweredFreely(b)
    THEN {[status |-> 200], [status |-> 404]}
    ELSE {[status |-> 200]}

ConcFeatureBodies(b) == {[data |-> [bpm |-> IF b = 1 THEN 120 ELSE 140]]}

InitConc ==
  /\ inv = [b \in {1, 2} |-> IdleInvocation]
  /\ clock = ZeroClock({1, 2})
  /\ calc = NoCalc
  /\ store = NoStore

NextConc ==
  \/ \E b \in DOMAIN inv :
       \/ \E songs \in ConcBatches :
            extractFeaturesFromSongs(b, songs) /\ Resumed(b)
       \/ TimerDue(b) /\ RateLimitDelayElapsed(b) /\ Resumed(b)
       \/ \E outcome \in ConcSearchFetchOutcomes(b) :
            SearchFetchSettles(b, outcome) /\ Resumed(b)
       \/ \E body \in ConcSearchBodies(b) : SearchJsonSettles(b, body) /\ Resumed(b)
       \/ TimerDue(b) /\ Backoff429Elapsed(b) /\ Resumed(b)
       \/ TimerDue(b) /\ BackoffErrorElapsed(b) /\ Resumed(b)
       \/ SearchResumes(b) /\ Resumed(b)
       \/ \E outcome \in ConcFeatureFetchOutcomes(b) :
            FeatureFetchSettles(b, outcome) /\ Resumed(b)
       \/ \E body \in ConcFeatureBodies(b) : FeatureJsonSettles(b, body) /\ Resumed(b)
       \/ FeaturesResume(b) /\ Resumed(b)
  \/ Tick

SpecConc == InitConc /\ [][NextConc]_vars

(***************************************************************************)
(* SpecApi: the routes of one existing session.  POST /api/process-list    *)
(* creates a song list and schedules its background task, which runs       *)
(* extractFeaturesFromSongs on the shared service and stores the features. *)
(* Song list k of the session is run by invocation k.  A handler runs in   *)
(* pieces, from one await to the next, and queued continuations run before *)
(* the next callback of the event loop.  The requests are valid and the    *)
(* collaborators answer as in SpecConc.                                    *)
(***************************************************************************)
\* MemStorage.createSongList
createSongList(id, songs) == [id |-> id, songs |-> songs, features |-> Null]

\* MemStorage.updateSongListFeatures: the entry keeps its place in the Map
updateSongListFeatures(songLists, id, features) ==
  [k \in DOMAIN songLists |->
     IF songLists[k].id = id
       THEN [songLists[k] EXCEPT !.features = features]
       ELSE songLists[k]]

\* the task scheduled for song list id, "none" before setImmediate
TaskOf(id) == IF id \in DOMAIN store.tasks THEN store.tasks[id] ELSE "none"

\* a POST handler is suspended at one of its awaits
HandlerPcs == {"awaitSession", "awaitCreate"}

HandlerRuns == \E h \in DOMAIN store.posts : store.posts[h].pc \in HandlerPcs

\* a continuation of an invocation or of a background task is queued
PendingResume ==
  \E b \in DOMAIN inv :
    \/ inv[b].pc \in ResumePcs
    \/ TaskOf(b) = "running" /\ inv[b].pc \in {"returned", "rejected"}

\* a callback of the event loop (a timer, a response, setImmediate) runs
\* only when no continuation is queued
Callback == ~HandlerRuns /\ ~PendingResume

\* POST /api/process-list: the body is parsed and storage.getSession is
\* awaited; a second request can start before the first handler resumes
PostProcessList(songs) ==
  /\ Len(store.posts) < Cardinality(DOMAIN inv)
  /\ ~PendingResume
  /\ \A h \in DOMAIN store.posts : store.posts[h].pc # "awaitCreate"
  /\ store' = [store EXCEPT
                 !.posts = Append(@, [pc |-> "awaitSession",
                                      songs |-> songs,
                                      songListId |-> Null])]
  /\ UNCHANGED <<inv, clock, calc>>

\* await storage.getSession resumes, first come first served: the session
\* exists, storage.createSongList adds the list and is awaited
PostSessionFound(h) ==
  /\ h \in DOMAIN store.posts
  /\ store.posts[h].pc = "awaitSession"
  /\ \A g \in 1..(h - 1) : store.posts[g].pc # "awaitSession"
  /\ LET id == Len(store.songLists) + 1
     IN  store' = [store EXCEPT
                    !.songLists = Append(@, createSongList(id, store.posts[h].songs)),
                    !.posts[h].pc = "awaitCreate",
                    !.posts[h].songListId = id]
  /\ UNCHANGED <<inv, clock, calc>>

\* await storage.createSongList resumes, after the handlers queued before
\* it: the task is scheduled with setImmediate and the response is sent
PostListCreated(h) ==
  /\ h \in DOMAIN store.posts
  /\ store.posts[h].pc = "awaitCreate"
  /\ \A g \in DOMAIN store.posts : store.posts[g].pc # "awaitSession"
  /\ \A g \in 1..(h - 1) : store.posts[g].pc # "awaitCreate"
  /\ LET id == store.posts[h].songListId
     IN  store' = [store EXCEPT
                    !.tasks = [k \in DOMAIN @ \cup {id} |->
                                 IF k = id THEN "scheduled" ELSE @[k]],
                    !.posts[h].pc = "responded"]
  /\ UNCHANGED <<inv, clock, calc>>

\* the setImmediate callback runs: extractFeaturesFromSongs(songs) is called
BackgroundTaskStarts(b) ==
  /\ Callback
  /\ TaskOf(b) = "scheduled"
  /\ extractFeaturesFromSongs(b, store.songLists[b].songs)
  /\ store' = [store EXCEPT !.tasks[b] = "running"]
  /\ UNCHANGED <<clock, calc>>

\* await extractFeaturesFromSongs(songs) resumes: if (features) the
\* features are stored; a rejection is caught and logged
BackgroundTaskResumes(b) ==
  /\ TaskOf(b) = "running"
  /\ inv[b].pc \in {"returned", "rejected"}
  /\ store' =
       [songLists |->
          IF inv[b].pc = "returned" /\ Truthy(inv[b].result.features)
            THEN updateSongListFeatures(store.songLists, b, inv[b].result.features)
            ELSE store.songLists,
        tasks |-> [store.tasks EXCEPT ![b] = "done"],
        posts |-> store.posts]
  /\ UNCHANGED <<inv, clock, calc>>

\* GET /api/processing-status/:sessionId
ProcessingStatus ==
  LET songLists == store.songLists
  IN  IF Len(songLists) = 0
        THEN [status |-> "no_processing"]
        ELSE LET latestSongList == songLists[Len(songLists)]
                 hasFeatures == latestSongList.features # Null
             IN  [status |-> IF hasFeatures THEN "completed" ELSE "processing",
                  songListId |-> latestSongList.id,
                  totalSongs |-> Len(latestSongList.songs),
                  hasFeatures |-> hasFeatures]

\* GET /api/sonic-profile/:sessionId: the placeholder, or the profile made
\* of the features it reads (from: the song list they belong to)
SonicProfile ==
  LET songLists == store.songLists
  IN  IF Len(songLists) = 0 \/ ~Truthy(songLists[1].features)
        THEN [placeholder |-> TRUE]
        ELSE [placeholder |-> FALSE,
              from |-> songLists[1].id,
              features |-> songLists[1].features]

InitApi ==
  /\ inv = [b \in {1, 2} |-> IdleInvocation]
  /\ clock = ZeroClock({1, 2})
  /\ calc = NoCalc
  /\ store = NoStore

\* a callback runs and touches neither the clock nor the store
Between == Callback /\ UNCHANGED <<clock, calc, store>>

NextApi ==
  \/ \E songs \in ConcBatches : PostProcessList(songs)
  \/ \E h \in DOMAIN store.posts :
       \/ PostSessionFound(h)
       \/ PostListCreated(h)
  \/ \E b \in DOMAIN inv :
       \/ BackgroundTaskStarts(b)
       \/ RateLimitDelayElapsed(b) /\ Between
       \/ \E outcome \in ConcSearchFetchOutcomes(b) :
            SearchFetchSettles(b, outcome) /\ Between
       \/ \E body \in ConcSearchBodies(b) : SearchJsonSettles(b, body) /\ Between
       \/ Backoff429Elapsed(b) /\ Between
       \/ BackoffErrorElapsed(b) /\ Between
       \/ SearchResumes(b) /\ Untimed
       \/ \E outcome \in ConcFeatureFetchOutcomes(b) :
            FeatureFetchSettles(b, outcome) /\ Between
       \/ \E body \in ConcFeatureBodies(b) : FeatureJsonSettles(b, body) /\ Between
       \/ FeaturesResume(b) /\ Untimed
       \/ BackgroundTaskResumes(b)

SpecApi == InitApi /\ [][NextApi]_vars

(***************************************************************************)
(* SpecApiLive: SpecApi with the progress the code itself guarantees, as   *)
(* in SpecLive: a queued continuation of a handler or of a task runs, the  *)
(* setImmediate callback runs, a timer fires and a fetch settles.  Nothing *)
(* makes a response body complete.                                         *)
(***************************************************************************)
ProgressApi ==
  \/ \E h \in DOMAIN store.posts :
       \/ PostSessionFound(h)
       \/ PostListCreated(h)
  \/ \E b \in DOMAIN inv :
       \/ BackgroundTaskStarts(b)
       \/ RateLimitDelayElapsed(b) /\ Between
       \/ \E outcome \in ConcSearchFetchOutcomes(b) :
            SearchFetchSettles(b, outcome) /\ Between
       \/ Backoff429Elapsed(b) /\ Between
       \/ BackoffErrorElapsed(b) /\ Between
       \/ \E outcome \in ConcFeatureFetchOutcomes(b) :
            FeatureFetchSettles(b, outcome) /\ Between
       \/ BackgroundTaskResumes(b)

ResumesApi == \A b \in {1, 2} : []<>(inv[b].pc \notin ResumePcs)

SpecApiLive ==
  InitApi /\ [][NextApi]_vars /\ WF_vars(ProgressApi) /\ ResumesApi

(***************************************************************************)
(* Reading a trace.                                                        *)
(***************************************************************************)
Requests(trace) == {k \in DOMAIN trace : trace[k].ev = "request"}

\* the settle events of attempt n
SettledAt(trace, n) ==
  {k \in DOMAIN trace : trace[k].ev = "settled" /\ trace[k].attempt = n}

\* a 429, another non-2xx status, a transport failure, a timeout abort, a
\* body that does not parse, a body that parses to null
IsFailure(o) ==
  \/ "error" \in DOMAIN o
  \/ "status" \in DOMAIN o /\ ~ResponseOk(o.status)
  \/ "data" \in DOMAIN o /\ o.data = Null

FailedAt(trace, n) == \E k \in SettledAt(trace, n) : IsFailure(trace[k].outcome)

Got429At(trace, n) ==
  \E k \in SettledAt(trace, n) :
    "status" \in DOMAIN trace[k].outcome /\ trace[k].outcome.status = 429

\* attempt n received a successful response carrying at least one recording
GotRecordingsAt(trace, n) ==
  \E k \in SettledAt(trace, n) :
    LET o == trace[k].outcome
    IN  /\ "data" \in DOMAIN o
        /\ o.data # Null
        /\ "recordings" \in DOMAIN o.data
        /\ Len(o.data.recordings) > 0

FirstIdAt(trace, n) ==
  LET k == CHOOSE k \in SettledAt(trace, n) : "data" \in DOMAIN trace[k].outcome
  IN  trace[k].outcome.data.recordings[1].id

\* the backoff delays of a searchRecording call
Backoffs(trace) ==
  {k \in DOMAIN trace :
     trace[k].ev = "delay" /\ trace[k].kind \in {"backoff_429", "backoff_error"}}

ProfileKeys == {"tempo", "mfcc", "chroma", "spectral", "rhythm_complexity"}

IsNumber(x) == DOMAIN x \in {1..2, 1..3} /\ \A k \in DOMAIN x : x[k] \in Int

IsVector(v) == DOMAIN v = 1..Len(v) /\ \A k \in DOMAIN v : IsNumber(v[k])

IsCompleteProfile(f) ==
  /\ DOMAIN f = ProfileKeys
  /\ DOMAIN f.tempo = {"mean", "std", "range"}
  /\ IsNumber(f.tempo.mean) /\ IsNumber(f.tempo.std)
  /\ Len(f.tempo.range) = 2
  /\ IsNumber(f.tempo.range[1]) /\ IsNumber(f.tempo.range[2])
  /\ DOMAIN f.mfcc = {"mean_vector", "variance_matrix"}
  /\ IsVector(f.mfcc.mean_vector)
  /\ \A k \in DOMAIN f.mfcc.variance_matrix : IsVector(f.mfcc.variance_matrix[k])
  /\ DOMAIN f.chroma = {"dominant_pitches", "avg_profile"}
  /\ \A k \in DOMAIN f.chroma.dominant_pitches : f.chroma.dominant_pitches[k] \in Nat
  /\ IsVector(f.chroma.avg_profile)
  /\ DOMAIN f.spectral = {"avg_centroid", "flux_variance"}
  /\ IsNumber(f.spectral.avg_centroid) /\ IsNumber(f.spectral.flux_variance)
  /\ IsNumber(f.rhythm_complexity)

(***************************************************************************)
(* Claims.                                                                 *)
(***************************************************************************)
\* C1: whatever the batch, the features extractFeaturesFromSongs returns are
\* a complete AggregateProfile, never null; when getAudioFeatures recovered
\* no document they are the all-zero/empty profile.
C1_Totality ==
  \A b \in DOMAIN inv :
    inv[b].pc = "returned" =>
      LET f == inv[b].result.features
      IN  /\ f # Null
          /\ IsCompleteProfile(f)
          /\ (inv[b].fetched = <<>> => f = emptyFeatures)

\* a non-empty batch returned without any document recovered
C1_Witness ==
  \E b \in DOMAIN inv :
    /\ inv[b].pc = "returned"
    /\ Len(inv[b].songs) = 2
    /\ inv[b].fetched = <<>>
    /\ inv[b].result.features = emptyFeatures

\* C2: no failure of a song aborts the batch: on return every song within
\* the cap has been attempted once, in order, and processedCount equals the
\* number of songs attempted; while a song is being looked up processedCount
\* counts the songs before it.
C2_EverySongCounted ==
  \A b \in DOMAIN inv :
    LET r == inv[b]
        n == Min2(Len(r.songs), MAX_SONGS)
    IN  /\ r.pc # "rejected"
        /\ r.pc = "returned" =>
             /\ r.resolverCalls = [k \in 1..n |-> k]
             /\ r.result.processedCount = n
        /\ r.pc \notin {"idle", "returned", "rejected"} =>
             r.processedCount = Len(r.resolverCalls) - 1

\* the first song gave no document, the second one was still looked up and
\* gave one
C2_Witness ==
  \E b \in DOMAIN inv :
    /\ inv[b].pc = "returned"
    /\ inv[b].result.processedCount = 2
    /\ Len(inv[b].fetched) = 1
    /\ inv[b].fetched[1].pos = 2
    /\ Len(inv[b].aggregated) = 1

\* C3: one searchRecording call sends at most 3 requests to the search
\* collaborator.
C3_AtMostThreeRequests ==
  \A b \in DOMAIN inv : Cardinality(Requests(inv[b].trace)) <= 3

\* a call that sent 3 requests, the last one aborted by the deadline
C3_Witness ==
  \E b \in DOMAIN inv :
    /\ inv[b].pc = "searchReturned"
    /\ Cardinality(Requests(inv[b].trace)) = 3
    /\ inv[b].trace[Len(inv[b].trace)].outcome = [error |-> "AbortError"]

\* C4: searchRecording resolves with a recording id or null and never
\* rejects; when every allowed attempt failed it resolves with null.
C4_ResolverNeverRaises ==
  \A b \in DOMAIN inv :
    inv[b].pc = "searchReturned" =>
      /\ inv[b].mbid \in {Null} \cup {JsString(id) : id \in RecordingIds}
      /\ (\A n \in 1..3 : FailedAt(inv[b].trace, n)) => inv[b].mbid = Null

\* null after a transport failure, an unparsable body and another status
C4_Witness ==
  \E b \in DOMAIN inv :
    /\ inv[b].pc = "searchReturned"
    /\ inv[b].mbid = Null
    /\ \E k \in SettledAt(inv[b].trace, 1) :
         inv[b].trace[k].outcome = [error |-> "TypeError"]
    /\ \E k \in SettledAt(inv[b].trace, 2) :
         inv[b].trace[k].outcome = [error |-> "SyntaxError"]
    /\ \E k \in SettledAt(inv[b].trace, 3) :
         inv[b].trace[k].outcome = [status |-> 503]

\* C5: 429 on the first k < 3 attempts and then a successful answer with at
\* least one recording gives the id of the first recording; 429 on all 3
\* attempts gives null.
C5_RateLimitedThenResolved ==
  \A b \in DOMAIN inv :
    inv[b].pc = "searchReturned" =>
      LET trace == inv[b].trace
      IN  /\ \A k \in 0..2 :
               (/\ \A n \in 1..k : Got429At(trace, n)
                /\ GotRecordingsAt(trace, k + 1))
                 => inv[b].mbid = JsString(FirstIdAt(trace, k + 1))
          /\ (\A n \in 1..3 : Got429At(trace, n)) => inv[b].mbid = Null

\* 429, 429, then two recordings: the id of the first one
C5_Witness ==
  \E b \in DOMAIN inv :
    /\ inv[b].pc = "searchReturned"
    /\ Got429At(inv[b].trace, 1)
    /\ Got429At(inv[b].trace, 2)
    /\ GotRecordingsAt(inv[b].trace, 3)
    /\ inv[b].mbid = JsString("mbid-2")

\* C6: within one searchRecording call the backoff applied after failed
\* attempt n+1 is strictly greater than the one applied after attempt n.
C6_BackoffStrictlyIncreasing ==
  \A b \in DOMAIN inv :
    \A j, k \in Backoffs(inv[b].trace) :
      inv[b].trace[k].attempt = inv[b].trace[j].attempt + 1
        => inv[b].trace[k].ms > inv[b].trace[j].ms

\* C7: one getAudioFeatures call sends exactly one request, whatever the
\* outcome.
C7_SingleFeatureRequest ==
  \A b \in DOMAIN inv :
    /\ Cardinality(Requests(inv[b].ftrace)) <= 1
    /\ inv[b].pc = "featuresReturned" =>
         Cardinality(Requests(inv[b].ftrace)) = 1

\* the deadline aborted the request and no second one was sent
C7_Witness ==
  \E b \in DOMAIN inv :
    /\ inv[b].pc = "featuresReturned"
    /\ inv[b].ftrace = <<Request(1), Settled(1, [error |-> "AbortError"])>>
    /\ inv[b].features = Null

\* C8: getAudioFeatures never rejects; every failure gives null and a
\* document comes only from a successful response, as its parsed body.
C8_FetcherNeverRaises ==
  \A b \in DOMAIN inv :
    inv[b].pc = "featuresReturned" =>
      LET ftrace == inv[b].ftrace
      IN  /\ ~IsThrown(inv[b].features)
          /\ FailedAt(ftrace, 1) => inv[b].features = Null
          /\ inv[b].features # Null =>
               /\ Len(ftrace) = 3
               /\ ftrace[1] = Request(1)
               /\ ftrace[2].ev = "settled"
               /\ "status" \in DOMAIN ftrace[2].outcome
               /\ ResponseOk(ftrace[2].outcome.status)
               /\ ftrace[3] = Settled(1, [data |-> inv[b].features])

\* an error status gave null
C8_Witness ==
  \E b \in DOMAIN inv :
    /\ inv[b].pc = "featuresReturned"
    /\ inv[b].ftrace = <<Request(1), Settled(1, [status |-> 500])>>
    /\ inv[b].features = Null

\* C9: only the first min(n, 500) songs are passed to searchRecording, no
\* call is made for a later song, the batch does not fail and processedCount
\* never exceeds 500.
C9_BatchCap ==
  \A b \in DOMAIN inv :
    LET r == inv[b]
    IN  /\ \A k \in DOMAIN r.resolverCalls :
             r.resolverCalls[k] = k /\ k <= 500
        /\ \A c \in r.inFlight : c.pos <= 500
        /\ r.processedCount <= 500
        /\ r.pc # "rejected"
        /\ r.pc = "returned" =>
             /\ Len(r.resolverCalls) = Min2(Len(r.songs), 500)
             /\ r.result.processedCount <= 500

\* 600 songs submitted, 500 attempted
C9_Witness ==
  \E b \in DOMAIN inv :
    /\ inv[b].pc = "returned"
    /\ Len(inv[b].songs) = 600
    /\ Len(inv[b].resolverCalls) = 500
    /\ inv[b].result.processedCount = 500

\* the documents getAudioFeatures resolved with and the loop has consumed
Consumed(r) ==
  IF r.pc = "featuresReturned" /\ Truthy(r.features) /\ ~IsThrown(r.features)
    THEN SubSeq(r.fetched, 1, Len(r.fetched) - 1)
    ELSE r.fetched

\* C10: at most one external call of the batch is outstanding, it belongs to
\* the song the loop is at, the songs are taken in input order, and the
\* accumulator holds the fetched documents in the order of their songs.
C10_Sequential ==
  \A b \in DOMAIN inv :
    LET r == inv[b]
    IN  /\ Cardinality(r.inFlight) <= 1
        /\ \A c \in r.inFlight : c.pos = r.i
        /\ r.resolverCalls = [k \in 1..r.i |-> k]
        /\ \A j, k \in DOMAIN r.fetcherCalls :
             j < k => r.fetcherCalls[j] < r.fetcherCalls[k]
        /\ \A j, k \in DOMAIN r.fetched :
             j < k => r.fetched[j].pos < r.fetched[k].pos
        /\ r.allFeatures = [k \in 1..Len(Consumed(r)) |-> Consumed(r)[k].doc]

\* two different documents accumulated, both in flight at no common moment
C10_Witness ==
  \E b \in DOMAIN inv :
    /\ inv[b].pc = "returned"
    /\ Len(inv[b].allFeatures) = 2
    /\ inv[b].allFeatures[1] # inv[b].allFeatures[2]
    /\ inv[b].fetcherCalls = <<1, 2>>

\* C11: aggregateFeatures is called at most once per invocation, only when
\* the loop has gone through every song within the cap, over the whole
\* accumulator, and exactly once when the accumulator is not empty; until
\* then no aggregate has been computed and no result is exposed.
C11_AggregatedOnceAtEnd ==
  \A b \in DOMAIN inv :
    LET r == inv[b]
    IN  /\ Len(r.aggregated) <= 1
        /\ r.pc # "returned" => r.aggregated = <<>> /\ r.result = Null
        /\ r.pc = "returned" =>
             /\ r.processedCount = Min2(Len(r.songs), 500)
             /\ Len(r.resolverCalls) = Min2(Len(r.songs), 500)
             /\ Len(r.allFeatures) > 0 =>
                  /\ r.aggregated = <<r.allFeatures>>
                  /\ r.allFeatures = [k \in 1..Len(r.fetched) |-> r.fetched[k].doc]

\* the first of two songs gave the only document; the aggregator ran once,
\* after the second song
C11_Witness ==
  \E b \in DOMAIN inv :
    /\ inv[b].pc = "returned"
    /\ Len(inv[b].songs) = 2
    /\ Len(inv[b].fetched) = 1
    /\ inv[b].fetched[1].pos = 1
    /\ inv[b].aggregated = <<inv[b].allFeatures>>

\* C14: every request of searchRecording directly follows the rate-limit
\* delay of 1000 ms of its attempt; on a retry that delay itself follows the
\* backoff delay of the attempt before.
C14_DelayBeforeEveryRequest ==
  \A b \in DOMAIN inv :
    LET trace == inv[b].trace
    IN  \A k \in Requests(trace) :
          /\ k > 1
          /\ trace[k - 1] = Delay("rate_limit", 1000, trace[k].attempt)
          /\ trace[k].attempt > 1 =>
               /\ k > 2
               /\ trace[k - 2].ev = "delay"
               /\ trace[k - 2].kind \in {"backoff_429", "backoff_error"}
               /\ trace[k - 2].attempt = trace[k].attempt - 1

\* the third request, sent after the error backoff and the rate-limit delay
C14_Witness ==
  \E b \in DOMAIN inv :
    \E k \in Requests(inv[b].trace) :
      /\ inv[b].trace[k] = Request(3)
      /\ inv[b].trace[k - 1] = Delay("rate_limit", 1000, 3)
      /\ inv[b].trace[k - 2] = Delay("backoff_error", 2000, 2)

\* a successful response without a recording
EmptyResult(o) ==
  /\ "data" \in DOMAIN o
  /\ o.data # Null
  /\ \/ "recordings" \notin DOMAIN o.data
     \/ Len(o.data.recordings) = 0

\* C15: a successful response with an empty result set ends the
\* searchRecording call with null: nothing is sent or awaited after it.
C15_EmptyResultReturnsNull ==
  \A b \in DOMAIN inv :
    LET trace == inv[b].trace
    IN  \A k \in DOMAIN trace :
          (trace[k].ev = "settled" /\ EmptyResult(trace[k].outcome)) =>
            /\ k = Len(trace)
            /\ inv[b].pc \in {"searchReturned", "returned"}
            /\ inv[b].mbid = Null

\* an empty result set on the second attempt, one attempt left
C15_Witness ==
  \E b \in DOMAIN inv :
    /\ inv[b].pc = "searchReturned"
    /\ inv[b].attempt = 2
    /\ Got429At(inv[b].trace, 1)
    /\ EmptyResult(inv[b].trace[Len(inv[b].trace)].outcome)
    /\ inv[b].mbid = Null

\* C13: no call to a collaborator is outstanding for longer than timeoutMs,
\* the response body included.
C13_CallsBoundedByDeadline ==
  \A b \in DOMAIN inv :
    inv[b].inFlight # {} => clock.age[b] <= timeoutMs

\* C16: two successive search requests of the service are at least
\* RATE_LIMIT_DELAY apart and no two search requests are outstanding at the
\* same time, whichever invocations send them.
C16_RequestsSpacedAndDisjoint ==
  /\ clock.gap >= 0 => clock.gap >= RATE_LIMIT_DELAY
  /\ Cardinality({b \in DOMAIN inv :
                    \E c \in inv[b].inFlight : c.service = "search"}) <= 1

\* the documents invocation r has received and taken into its accumulator
OwnDocs(r) == [k \in DOMAIN Consumed(r) |-> Consumed(r)[k].doc]

\* C17: the accumulator and the counter of an invocation hold what its own
\* songs and its own documents give, and its result is the one this input
\* gives alone, whatever another invocation does in the meantime.
C17_NoInterference ==
  \A b \in DOMAIN inv :
    LET r == inv[b]
    IN  /\ r.allFeatures = OwnDocs(r)
        /\ r.processedCount <= Len(r.songsToProcess)
        /\ r.pc = "returned" =>
             r.result =
               [features |-> IF OwnDocs(r) = <<>>
                               THEN emptyFeatures
                               ELSE aggregateFeatures(OwnDocs(r)),
                processedCount |-> Min2(Len(r.songs), MAX_SONGS)]

\* invocation 1 has returned the aggregate of its document while invocation
\* 2 is in its loop with a different document of its own
C17_Witness ==
  /\ DOMAIN inv = {1, 2}
  /\ inv[1].pc = "returned"
  /\ inv[1].result.features.tempo.mean = <<120, 1>>
  /\ inv[2].pc = "featuresReturned"
  /\ inv[2].features = [bpm |-> 140]

\* C18: an invocation rejects only with the dedicated InvalidArgument error.
C18_RejectsOnlyWithInvalidArgument ==
  \A b \in DOMAIN inv :
    inv[b].pc = "rejected" => inv[b].result = Thrown("InvalidArgument")

\* the vectors of a collection have one length
SameLengths(vectors) ==
  \A j, k \in DOMAIN vectors : Len(vectors[j]) = Len(vectors[k])

\* C12 as stated: aggregateFeatures gives the same tempo.mean, tempo.std,
\* mfcc.mean_vector, mfcc.variance_matrix and chroma.dominant_pitches for a
\* list of documents and for every permutation of it, whatever the lengths
\* of the vectors.
C12_PermutationInvariant ==
  Len(calc.calls) = 2 =>
    LET a == calc.calls[1].output
        b == calc.calls[2].output
    IN  /\ a.tempo.mean = b.tempo.mean
        /\ a.tempo.std = b.tempo.std
        /\ a.mfcc.mean_vector = b.mfcc.mean_vector
        /\ a.mfcc.variance_matrix = b.mfcc.variance_matrix
        /\ a.chroma.dominant_pitches = b.chroma.dominant_pitches

\* C12 amended: tempo.mean and tempo.std are the same for a list of
\* documents and every permutation of it; mfcc.mean_vector and
\* mfcc.variance_matrix are the same when the mfcc vectors of the documents
\* have one length; chroma.dominant_pitches are the same when the chroma
\* vectors of the documents have one length.
C12_PermutationInvariantEqualLengths ==
  Len(calc.calls) = 2 =>
    LET a == calc.calls[1].output
        b == calc.calls[2].output
        mfccs == CollectVector(calc.features, "mfcc")
        chromas == CollectVector(calc.features, "chroma")
    IN  /\ a.tempo.mean = b.tempo.mean
        /\ a.tempo.std = b.tempo.std
        /\ SameLengths(mfccs) =>
             /\ a.mfcc.mean_vector = b.mfcc.mean_vector
             /\ a.mfcc.variance_matrix = b.mfcc.variance_matrix
        /\ SameLengths(chromas) =>
             a.chroma.dominant_pitches = b.chroma.dominant_pitches

\* a list with two different mfcc vectors of one length, two different chroma
\* vectors of one length and tempos was aggregated in two different orders
C12_Witness ==
  /\ Len(calc.calls) = 2
  /\ calc.calls[1].input # calc.calls[2].input
  /\ LET mfccs == CollectVector(calc.features, "mfcc")
         chromas == CollectVector(calc.features, "chroma")
     IN  /\ Len(mfccs) = 2 /\ mfccs[1] # mfccs[2] /\ SameLengths(mfccs)
         /\ Len(chromas) = 2 /\ chromas[1] # chromas[2] /\ SameLengths(chromas)
  /\ calc.calls[1].output.tempo.mean = Num(110)
  /\ calc.calls[1].output.mfcc.mean_vector = <<Num(2), Rat(7, 2)>>

\* no document of the list carries the field
NoDocHas(features, key) == \A k \in DOMAIN features : key \notin DOMAIN features[k]

\* C19: in every profile a field no document supplied holds its default,
\* whatever the other fields hold; a list of documents that carry none of
\* the fields gives the empty scaffold of extractFeaturesFromSongs.
C19_DefaultsForEmptyCollections ==
  \A c \in DOMAIN calc.calls :
    LET in == calc.calls[c].input
        out == calc.calls[c].output
        none == \A key \in {"bpm", "mfcc", "chroma", "centroid", "flux", "zcr"} :
                  NoDocHas(in, key)
    IN  /\ NoDocHas(in, "bpm") =>
             out.tempo = [mean |-> Num(0), std |-> Num(0),
                          range |-> <<Num(0), Num(0)>>]
        /\ NoDocHas(in, "mfcc") =>
             out.mfcc = [mean_vector |-> <<>>, variance_matrix |-> <<>>]
        /\ NoDocHas(in, "chroma") =>
             out.chroma = [dominant_pitches |-> <<>>, avg_profile |-> <<>>]
        /\ NoDocHas(in, "centroid") => out.spectral.avg_centroid = Num(0)
        /\ NoDocHas(in, "flux") => out.spectral.flux_variance = Num(0)
        /\ NoDocHas(in, "zcr") => out.rhythm_complexity = Num(0)
        /\ none => out = emptyFeatures

\* tempos were aggregated from documents without mfcc, chroma and spectral
\* fields: these hold their defaults next to the tempo data
C19_Witness ==
  \E c \in DOMAIN calc.calls :
    LET in == calc.calls[c].input
        out == calc.calls[c].output
    IN  /\ in = <<[bpm |-> 120], <<>>, [bpm |-> 140]>>
        /\ out.tempo.mean = Num(130)
        /\ out.mfcc = [mean_vector |-> <<>>, variance_matrix |-> <<>>]
        /\ out.chroma = [dominant_pitches |-> <<>>, avg_profile |-> <<>>]
        /\ out.spectral = [avg_centroid |-> Num(0), flux_variance |-> Num(0)]
        /\ out.rhythm_complexity = Num(0)

RECURSIVE SumOf(_)
SumOf(xs) == IF xs = <<>> THEN 0 ELSE Head(xs) + SumOf(Tail(xs))

\* the square of a number, a kept square root included
Squared(p) == IF Len(p) = 3 THEN Rat(p[1], p[2]) ELSE RMul(p, p)

\* C20: for the tempos gathered from the documents (at least one),
\* tempo.mean times their count is their sum, tempo.std is not negative and
\* its square times the count is the sum of the squared deviations from the
\* mean (count * sum of squares - square of the sum, over count), and
\* tempo.range is their least and their greatest value.
C20_TempoStatistics ==
  \A c \in DOMAIN calc.calls :
    LET tempos == CollectNumber(calc.calls[c].input, "bpm")
        tempo == calc.calls[c].output.tempo
        n == Len(tempos)
        sum == SumOf(tempos)
        squares == SumOf([k \in 1..n |-> tempos[k] * tempos[k]])
    IN  n > 0 =>
          /\ RMul(tempo.mean, Num(n)) = Num(sum)
          /\ tempo.std[1] >= 0
          /\ RMul(Squared(tempo.std), Num(n * n)) = Num(n * squares - sum * sum)
          /\ \E j, k \in 1..n :
               /\ tempo.range = <<Num(tempos[j]), Num(tempos[k])>>
               /\ \A l \in 1..n : tempos[j] <= tempos[l] /\ tempos[l] <= tempos[k]

\* the documents {bpm: 120} and {bpm: 140} give mean 130, std 10 and range
\* [120, 140]
C20_Witness ==
  \E c \in DOMAIN calc.calls :
    /\ calc.calls[c].input = <<[bpm |-> 120], [bpm |-> 140]>>
    /\ calc.calls[c].output.tempo =
         [mean |-> Num(130), std |-> Num(10), range |-> <<Num(120), Num(140)>>]

RECURSIVE RatSum(_)
RatSum(ps) == IF ps = <<>> THEN Num(0) ELSE RAdd(Head(ps), RatSum(Tail(ps)))

\* mv is the vector C21 describes for the collection
MeanVectorAsSpecified(vectors, mv) ==
  IF vectors = <<>> THEN mv = <<>>
  ELSE /\ Len(mv) = Len(vectors[1])
       /\ \A i \in 1..Len(mv) :
            LET Has(v) == i <= Len(v)
                having == SelectSeq(vectors, Has)
            IN  mv[i] = Rat(SumOf([k \in 1..Len(having) |-> having[k][i]]),
                            Len(vectors))

\* C21: meanVector of the empty collection is []; otherwise the result is as
\* long as the first vector and entry i is the sum of v[i] over the vectors
\* that have an element at i, divided by the number of all vectors.  Checked
\* on both uses of meanVector: mfcc.mean_vector and chroma.avg_profile.
C21_MeanVector ==
  \A c \in DOMAIN calc.calls :
    LET in == calc.calls[c].input
        out == calc.calls[c].output
    IN  /\ MeanVectorAsSpecified(CollectVector(in, "mfcc"), out.mfcc.mean_vector)
        /\ MeanVectorAsSpecified(CollectVector(in, "chroma"), out.chroma.avg_profile)

\* the first vector is the longer one: component 2 sums one element and is
\* divided by two
C21_Witness ==
  \E c \in DOMAIN calc.calls :
    /\ CollectVector(calc.calls[c].input, "mfcc") = <<<<1, 2>>, <<3>>>>
    /\ calc.calls[c].output.mfcc.mean_vector = <<Num(2), Num(1)>>

\* v[k] when v has an element at k and 0 otherwise
AtOrZero(v, k) == IF k \in DOMAIN v THEN v[k] ELSE 0

\* m is the matrix C22 describes for the collection and its mean vector mv
VarianceMatrixAsSpecified(vectors, mv, m) ==
  IF vectors = <<>> THEN m = <<>>
  ELSE LET N == Len(mv)
           n == Len(vectors)
           Dev(k, i) == RSub(Num(AtOrZero(vectors[k], i)), mv[i])
       IN  /\ Len(m) = N
           /\ \A i \in 1..N :
                /\ Len(m[i]) = N
                /\ \A j \in 1..N :
                     m[i][j] = RDiv(RatSum([k \in 1..n |->
                                              RMul(Dev(k, i), Dev(k, j))]), n)

\* C22: varianceMatrix of the empty collection is []; otherwise it is the
\* N x N matrix, N the length of meanVector(vectors), whose entry [i][j] is
\* the sum over the vectors of the products of the deviations of components
\* i and j from the mean, a missing component counting as 0, divided by the
\* number of vectors.
C22_VarianceMatrix ==
  \A c \in DOMAIN calc.calls :
    LET mfccs == CollectVector(calc.calls[c].input, "mfcc")
        out == calc.calls[c].output
    IN  VarianceMatrixAsSpecified(mfccs, meanVector(mfccs), out.mfcc.variance_matrix)

\* the second vector lacks component 2: it counts as 0 against the mean 5/2
C22_Witness ==
  \E c \in DOMAIN calc.calls :
    /\ CollectVector(calc.calls[c].input, "mfcc") = <<<<3, 5>>, <<3>>>>
    /\ calc.calls[c].output.mfcc.variance_matrix =
         <<<<Num(0), Num(0)>>, <<Num(0), Rat(25, 4)>>>>

\* dp lists the 0-based positions of avg in descending order of value, equal
\* values in ascending order of position, cut after the third
DominantAsSpecified(avg, dp) ==
  LET N == Len(avg)
      Before(a, b) ==
        \/ RLess(avg[b + 1], avg[a + 1])
        \/ avg[a + 1] = avg[b + 1] /\ a < b
      chosen == {dp[k] : k \in DOMAIN dp}
  IN  /\ Len(dp) = Min2(3, N)
      /\ chosen \subseteq 0..(N - 1)
      /\ Cardinality(chosen) = Len(dp)
      /\ \A k, l \in DOMAIN dp : k < l => Before(dp[k], dp[l])
      /\ \A idx \in (0..(N - 1)) \ chosen : \A k \in DOMAIN dp : Before(dp[k], idx)
      /\ N > 0 => \A idx \in 0..(N - 1) : ~RLess(avg[dp[1] + 1], avg[idx + 1])

\* C23: getDominantPitches returns the positions of the entries of
\* meanVector(chromas) in descending order of value, ties in ascending
\* order of position, cut after the first 3: min(3, length) distinct valid
\* positions, the first one a position of the maximum.
C23_DominantPitches ==
  \A c \in DOMAIN calc.calls :
    LET chromas == CollectVector(calc.calls[c].input, "chroma")
        out == calc.calls[c].output
    IN  IF chromas = <<>>
          THEN out.chroma.dominant_pitches = <<>>
          ELSE DominantAsSpecified(meanVector(chromas), out.chroma.dominant_pitches)

\* the one-hot vectors at index 0 and at index 1 give [0, 1, 2]
C23_Witness ==
  \E c \in DOMAIN calc.calls :
    /\ calc.calls[c].input = <<[chroma |-> OneHot(12, 0)], [chroma |-> OneHot(12, 1)]>>
    /\ calc.calls[c].output.chroma.avg_profile[1] = Rat(1, 2)
    /\ calc.calls[c].output.chroma.avg_profile[2] = Rat(1, 2)
    /\ calc.calls[c].output.chroma.avg_profile[3] = Num(0)
    /\ calc.calls[c].output.chroma.dominant_pitches = <<0, 1, 2>>

\* C24: a call of aggregateFeatures leaves the list, every document and
\* every vector of a document as they were; a second call on the list the
\* first call left returns the same profile; and no field of the service
\* changes.  What a call leaves is what its writes leave.
C24_Pure ==
  /\ \A c \in DOMAIN calc.calls : calc.calls[c].after = calc.calls[c].input
  /\ \A c, d \in DOMAIN calc.calls :
       calc.calls[d].input = calc.calls[c].after =>
         calc.calls[d].output = calc.calls[c].output
  /\ calc.service = ServiceFields

\* the second call is on the list the first call left; meanVector and
\* varianceMatrix wrote their arrays for two mfcc and two chroma vectors
C24_Witness ==
  /\ Len(calc.calls) = 2
  /\ calc.calls[2].input = calc.calls[1].after
  /\ Len(CollectVector(calc.features, "mfcc")) = 2
  /\ Len(CollectVector(calc.features, "chroma")) = 2
  /\ Len(aggregateFeaturesWrites(calc.calls[1].input)) = 12
  /\ calc.calls[2].output.tempo.mean = Num(100)
  /\ calc.calls[2].after = calc.features

\* the values of the field in the documents that carry it
RECURSIVE ValuesOf(_, _)
ValuesOf(features, key) ==
  IF features = <<>> THEN <<>>
  ELSE (IF key \in DOMAIN Head(features) THEN <<Head(features)[key]>> ELSE <<>>)
         \o ValuesOf(Tail(features), key)

\* m is the arithmetic mean of the values xs
IsMeanOf(m, xs) == RMul(m, Num(Len(xs))) = Num(SumOf(xs))

\* C27: every value of a numeric field that a document carries, 0 included,
\* is part of the aggregate: tempo.mean, spectral.avg_centroid and
\* rhythm_complexity are the means of all values carried, and tempo.range
\* spans all bpm values carried.
C27_ZeroValuesCounted ==
  \A c \in DOMAIN calc.calls :
    LET in == calc.calls[c].input
        out == calc.calls[c].output
        bpms == ValuesOf(in, "bpm")
    IN  /\ bpms # <<>> =>
             /\ IsMeanOf(out.tempo.mean, bpms)
             /\ out.tempo.range = <<Num(MathMin(bpms)), Num(MathMax(bpms))>>
        /\ ValuesOf(in, "centroid") # <<>> =>
             IsMeanOf(out.spectral.avg_centroid, ValuesOf(in, "centroid"))
        /\ ValuesOf(in, "zcr") # <<>> =>
             IsMeanOf(out.rhythm_complexity, ValuesOf(in, "zcr"))

\* v cut or filled with zeros to length n
Resize(v, n) == [k \in 1..n |-> AtOrZero(v, k)]

\* C28: meanVector is the element-wise mean of the vectors resized (filled
\* with zeros or cut) to the length of the first one, and varianceMatrix is
\* the population covariance matrix of the resized vectors (the mean of the
\* products minus the product of the means), its diagonal the population
\* variance of each component.
C28_OneMissingElementPolicy ==
  \A c \in DOMAIN calc.calls :
    LET mfccs == CollectVector(calc.calls[c].input, "mfcc")
        out == calc.calls[c].output
        n == Len(mfccs)
    IN  IF n = 0
          THEN out.mfcc = [mean_vector |-> <<>>, variance_matrix |-> <<>>]
          ELSE LET N == Len(mfccs[1])
                   resized == [k \in 1..n |-> Resize(mfccs[k], N)]
                   column(i) == [k \in 1..n |-> resized[k][i]]
                   products(i, j) == [k \in 1..n |-> resized[k][i] * resized[k][j]]
               IN  /\ out.mfcc.mean_vector = [i \in 1..N |-> mean(column(i))]
                   /\ DOMAIN out.mfcc.variance_matrix = 1..N
                   /\ \A i, j \in 1..N :
                        out.mfcc.variance_matrix[i][j] =
                          RSub(Rat(SumOf(products(i, j)), n),
                               RMul(mean(column(i)), mean(column(j))))
                   /\ \A i \in 1..N :
                        out.mfcc.variance_matrix[i][i] = variance(column(i))

\* one vector is filled with a zero, and the covariance of the two
\* components is 17/3 - 49/9
C28_Witness ==
  \E c \in DOMAIN calc.calls :
    /\ CollectVector(calc.calls[c].input, "mfcc") = <<<<1, 2>>, <<3>>, <<3, 5>>>>
    /\ calc.calls[c].output.mfcc.mean_vector = <<Rat(7, 3), Rat(7, 3)>>
    /\ calc.calls[c].output.mfcc.variance_matrix[1][2] = Rat(2, 9)

\* a song list has no features, and the status of the session whose latest
\* list it is reads "processing", as long as its batch has not been gone
\* through and its task has not resumed; once the task is done the features
\* the batch returned are stored, also when no song gave a document, and
\* the status reads "completed"
StatusFollowsBatch ==
  \A b \in DOMAIN store.songLists :
    LET list == store.songLists[b]
        latest == b = Len(store.songLists)
    IN  /\ list.id = b
        /\ (TaskOf(b) # "done" \/ inv[b].pc # "returned") =>
             /\ list.features = Null
             /\ latest => ProcessingStatus.status = "processing"
        /\ TaskOf(b) = "done" =>
             /\ inv[b].pc = "returned"
             /\ list.features = inv[b].result.features
             /\ list.features # Null
             /\ IsCompleteProfile(list.features)
             /\ latest => /\ ProcessingStatus.status = "completed"
                           /\ ProcessingStatus.songListId = b

\* song list b has been created by an accepted POST
Accepted(b) == b \in DOMAIN store.songLists

\* the features of song list b are stored
Stored(b) == Accepted(b) /\ store.songLists[b].features # Null

\* C29: the status follows the batch at every moment, and every song list
\* that was created has its features stored in the end, so that its status
\* reads "completed" in the end.
C29_StatusFollowsBatch ==
  /\ []StatusFollowsBatch
  /\ \A b \in {1, 2} : Accepted(b) ~> Stored(b)

\* C30: with more than one song list in the session, a status of
\* "completed" comes with the sonic profile of the features of the list the
\* status names, and a status of "processing" with no profile at all.
C30_StatusAndProfileSameList ==
  Len(store.songLists) > 1 =>
    /\ ProcessingStatus.status = "completed" =>
         /\ ~SonicProfile.placeholder
         /\ SonicProfile.from = ProcessingStatus.songListId
    /\ ProcessingStatus.status = "processing" => SonicProfile.placeholder

\* the state of the song the loop of invocation r is at
Phase(r) ==
  CASE r.pc = "idle" -> "Idle"
    [] r.pc \in TimerPcs \cup {"awaitSearchFetch", "awaitSearchJson"} -> "Resolving"
    [] r.pc = "searchReturned" ->
         IF IsThrown(r.mbid) THEN "Raised"
         ELSE IF Truthy(r.mbid) THEN "Resolved" ELSE "Unresolved"
    [] r.pc \in {"awaitFeatureFetch", "awaitFeatureJson"} -> "Fetching"
    [] r.pc = "featuresReturned" ->
         IF IsThrown(r.features) THEN "Raised"
         ELSE IF Truthy(r.features) THEN "Fetched" ELSE "Unfetched"
    [] r.pc = "returned" -> "Returned"
    [] r.pc = "rejected" -> "Rejected"

\* the song is Done and the loop goes on: the next song is Pending and at
\* once Resolving by one new Resolver call, or the batch returns
DoneThenNext(r, q) ==
  \/ /\ Phase(q) = "Resolving"
     /\ q.i = r.i + 1
     /\ q.resolverCalls = Append(r.resolverCalls, q.i)
     /\ q.fetcherCalls = r.fetcherCalls
  \/ /\ Phase(q) = "Returned"
     /\ q.i = r.i
     /\ r.i = Len(r.songsToProcess)
     /\ q.resolverCalls = r.resolverCalls
     /\ q.fetcherCalls = r.fetcherCalls

\* the song stays the same and no collaborator is called anew
SameSong(r, q) ==
  /\ q.i = r.i
  /\ q.resolverCalls = r.resolverCalls
  /\ q.fetcherCalls = r.fetcherCalls

\* one step of invocation r to q along the state machine of a song
SongStep(r, q) ==
  \/ q = r
  \/ /\ Phase(r) = "Idle"
     /\ r.i = 0 /\ r.resolverCalls = <<>> /\ r.fetcherCalls = <<>>
     /\ DoneThenNext([r EXCEPT !.songsToProcess = q.songsToProcess], q)
     /\ q.allFeatures = <<>>
  \/ /\ Phase(r) = "Resolving"
     /\ Phase(q) \in {"Resolving", "Resolved", "Unresolved"}
     /\ SameSong(r, q)
     /\ q.allFeatures = r.allFeatures
  \/ /\ Phase(r) = "Resolved"
     /\ Phase(q) = "Fetching"
     /\ q.i = r.i
     /\ q.resolverCalls = r.resolverCalls
     /\ q.fetcherCalls = Append(r.fetcherCalls, r.i)
     /\ q.allFeatures = r.allFeatures
  \/ /\ Phase(r) = "Fetching"
     /\ Phase(q) \in {"Fetching", "Fetched", "Unfetched"}
     /\ SameSong(r, q)
     /\ q.allFeatures = r.allFeatures
  \/ /\ Phase(r) \in {"Unresolved", "Unfetched"}
     /\ DoneThenNext(r, q)
     /\ q.allFeatures = r.allFeatures
  \/ /\ Phase(r) = "Fetched"
     /\ DoneThenNext(r, q)
     /\ q.allFeatures = Append(r.allFeatures, r.features)

\* C25: every step of an invocation follows Pending -> Resolving ->
\* (Resolved | Unresolved) -> (Fetching -> (Fetched | Unfetched)) -> Done for
\* the song it is at: one Resolver call per song, a Fetcher call only from
\* Resolved and once, a document appended only from Fetched.
C25_PerSongStateMachine ==
  [][\A b \in DOMAIN inv : SongStep(inv[b], inv'[b])]_vars

\* the first song was fetched and its document appended, the second song is
\* Unresolved after its one Resolver call
C25_Witness ==
  \E b \in DOMAIN inv :
    /\ Phase(inv[b]) = "Unresolved"
    /\ inv[b].i = 2
    /\ inv[b].resolverCalls = <<1, 2>>
    /\ inv[b].fetcherCalls = <<1>>
    /\ Len(inv[b].allFeatures) = 1

\* C26: a batch that was started returns in the end, whatever the
\* collaborators do.
C26_EveryBatchReturns == (inv[1].pc # "idle") ~> (inv[1].pc = "returned")
====
